---- MODULE Spec2Model ----
\* Tiered command-line argument parser of clrust: ArgKey, the validators,
\* Arg, ParamTier / ArgParser (src/arg_parser.rs, src/arg.rs) and its earlier
\* revision ArgStructure / ArgumentParser (src/argument_parser.rs,
\* src/argument.rs), over the ParsedArg of src/parsed_arg.rs.
\*
\* Strings are sequences of one-character strings, so that splitting a token
\* at '=' and comparing values are computed, not assumed.
EXTENDS Integers, Sequences, FiniteSets, TLC

\* ---------------------------------------------------------------- bounds
MaxTokens == 3      \* length of the raw argument list
MaxTiers == 2       \* tiers of the parser
MaxParams == 2      \* add_argument calls over the life of the parser
MaxCalls == 2       \* parse / incremental_parse calls
MaxBuilds == 3      \* validators registered on one Arg
MaxOptions == 2     \* options of one option-set validator
MaxKeyLen == 4      \* characters of a token handed to ArgKey
MaxNodes == 6       \* nodes of a TerminalNodes value under construction

\* ------------------------------------------------------- option values
None == [some |-> FALSE]
Some(v) == [some |-> TRUE, v |-> v]

\* ------------------------------------------------------------ strings
EmptyString == << >>

\* String::from(arg.get_unchecked(..n))
Prefix(s, n) == SubSeq(s, 1, n)

\* String::from(arg.get_unchecked(n + 1..)), n counted from 0 in the source
Suffix(s, n) == SubSeq(s, n + 1, Len(s))

\* str::find('='): index (from 1) of the first '=', 0 when there is none
FindEq(s) ==
    IF \E i \in 1..Len(s) : s[i] = "="
    THEN CHOOSE i \in 1..Len(s) : s[i] = "=" /\ \A j \in 1..(i - 1) : s[j] # "="
    ELSE 0

\* ------------------------------------------------------------- errors
Ok == [ok |-> TRUE]
Err(kind) == [ok |-> FALSE, kind |-> kind, key |-> None]

\* ------------------------------------------------------------- ArgKey
is_arg_key(value) == Len(value) >= 1 /\ value[1] = "-"

\* ArgKey::new
ArgKey_new(value) ==
    IF is_arg_key(value) THEN [ok |-> TRUE, key |-> value] ELSE Err("InvalidKey")

\* ArgKey::from_cmd / ArgKey::parse_arg: (key, inline value) split at the first '='
from_cmd(arg) ==
    IF is_arg_key(arg)
    THEN IF FindEq(arg) # 0
         THEN [ok |-> TRUE, key |-> Prefix(arg, FindEq(arg) - 1),
               value |-> Some(Suffix(arg, FindEq(arg)))]
         ELSE [ok |-> TRUE, key |-> arg, value |-> None]
    ELSE Err("InvalidKey")

\* ParseError::key / ArgParseError::or_else: attach the location tag
key(e, k) == [e EXCEPT !.key = Some(k)]

KeyTag(k) == [tier |-> FALSE, k |-> k]
TierTag(pos_id) == [tier |-> TRUE, k |-> pos_id]

\* -------------------------------------------------------- validators
ArgOptionValidator(options) == [id |-> "Option", options |-> options]
ArgCountValidator(min_size, max_size) ==
    [id |-> "ArgCountValidator", min_size |-> min_size, max_size |-> max_size]
ArgEmptyValidator(allow_empty) == [id |-> "ArgEmptyValidator", allow_empty |-> allow_empty]
DefaultArg(value) == [id |-> "DefaultArg", value |-> value]

ArgOptionValidator_validate_prefix(self, v) ==
    IF ~v.some THEN Err("NoValueGiven")
    ELSE IF \E i \in 1..Len(self.options) :
              /\ Len(self.options[i]) >= Len(v.v)
              /\ Prefix(self.options[i], Len(v.v)) = v.v
         THEN Ok
         ELSE Err("InvalidValue")

\* ArgOptionValidator::validate / ArgOptions::validate + check
ArgOptionValidator_validate(self, v) ==
    IF ~v.some THEN Err("NoValueGiven")
    ELSE IF \E i \in 1..Len(self.options) : self.options[i] = v.v
         THEN Ok
         ELSE Err("InvalidValue")

\* ArgEmptyValidator::validate / EmptyValidator::validate
ArgEmptyValidator_validate(self, value) ==
    IF self.allow_empty THEN Ok
    ELSE IF value.some THEN Ok
    ELSE Err("NoValueGiven")

\* dispatch of `validator.validate(value)` over the boxed validator
Validator_validate(self, value) ==
    CASE self.id = "Option" -> ArgOptionValidator_validate(self, value)
      [] self.id = "ArgEmptyValidator" -> ArgEmptyValidator_validate(self, value)
      [] OTHER -> Ok

\* <Arg as ArgValidator>::validate: the validators in order, first error wins
RECURSIVE Arg_validate_from(_, _, _)
Arg_validate_from(self, value, i) ==
    IF i > Len(self) THEN Ok
    ELSE IF ~Validator_validate(self[i], value).ok
         THEN Validator_validate(self[i], value)
         ELSE Arg_validate_from(self, value, i + 1)

Arg_validate(self, value) == Arg_validate_from(self, value, 1)

\* ---------------------------------------------------------- ParsedArg
\* ParsedArg.args is a sequence of PositionalParsedArgs records
PositionalParsedArgs(value) == [value |-> value, parameters |-> << >>]

\* Outcome of an `unwrap()` on None: the call aborts
Panic == [ok |-> FALSE, kind |-> "panic", key |-> None]

\* PositionalParsedArgs::filter(key).count()
PositionalParsedArgs_count(rec, k) ==
    Cardinality({j \in 1..Len(rec.parameters) : rec.parameters[j][1] = k})

ParsedArg_count_any(args, k) ==
    IF Len(args) = 0 THEN Panic
    ELSE Cardinality({<<r, j>> \in (1..Len(args)) \X (1..MaxTokens + MaxParams) :
                         /\ j <= Len(args[r].parameters)
                         /\ args[r].parameters[j][1] = k})

\* ParsedArg::count: self.args.last().unwrap().count(key)
ParsedArg_count(args, k) ==
    IF Len(args) = 0 THEN Panic ELSE PositionalParsedArgs_count(args[Len(args)], k)

\* ParsedArg::add_positional
add_positional(args, value) == Append(args, PositionalParsedArgs(value))

\* ParsedArg::add_parametric on the last record (the caller checks non-emptiness)
add_parametric(args, k, value) ==
    [args EXCEPT ![Len(args)].parameters = Append(@, <<k, value>>)]

\* ------------------------------------------------------ post_validate
\* Each post_validate returns [r |-> Ok / Err / Panic, args |-> the result after it]

\* ArgCountValidator::post_validate / CountValidator::post_validate;
\* args.count(k) is self.args.last().unwrap().count(k)
ArgCountValidator_post_validate(self, k, args) ==
    IF k.some /\ Len(args) = 0 THEN [r |-> Panic, args |-> args]
    ELSE LET count == IF k.some THEN PositionalParsedArgs_count(args[Len(args)], k.v) ELSE 1
         IN  IF count < self.min_size \/ count > self.max_size
             THEN [r |-> Err("TooManyValueGiven"), args |-> args]
             ELSE [r |-> Ok, args |-> args]

DefaultArg_post_validate_keyless(self, k, args) ==
    IF ~k.some THEN [r |-> Ok, args |-> add_parametric(args, EmptyString, self.value)]
    ELSE IF Len(args) = 0 THEN [r |-> Panic, args |-> args]
    ELSE IF PositionalParsedArgs_count(args[Len(args)], k.v) = 0
         THEN [r |-> Ok, args |-> add_parametric(args, k.v, self.value)]
         ELSE [r |-> Ok, args |-> args]

\* DefaultArg::post_validate
DefaultArg_post_validate(self, k, args) ==
    IF ~k.some THEN [r |-> Ok, args |-> args]
    ELSE IF Len(args) = 0 THEN [r |-> Panic, args |-> args]
    ELSE IF PositionalParsedArgs_count(args[Len(args)], k.v) = 0
         THEN [r |-> Ok, args |-> add_parametric(args, k.v, self.value)]
         ELSE [r |-> Ok, args |-> args]

\* dispatch of `validator.post_validate(key, args)` over the boxed validator
Validator_post_validate(self, k, args) ==
    CASE self.id = "ArgCountValidator" -> ArgCountValidator_post_validate(self, k, args)
      [] self.id = "DefaultArg" -> DefaultArg_post_validate(self, k, args)
      [] OTHER -> [r |-> Ok, args |-> args]

RECURSIVE Arg_post_validate_from_all(_, _, _, _)
Arg_post_validate_from_all(self, k, args, i) ==
    IF i > Len(self) THEN [r |-> Ok, args |-> args]
    ELSE [r |-> IF ~Validator_post_validate(self[i], k, args).r.ok
                THEN Validator_post_validate(self[i], k, args).r
                ELSE Arg_post_validate_from_all(
                         self, k, Validator_post_validate(self[i], k, args).args, i + 1).r,
          args |-> Arg_post_validate_from_all(
                       self, k, Validator_post_validate(self[i], k, args).args, i + 1).args]

\* <Arg as ArgValidator>::post_validate: the validators in order, first error wins
RECURSIVE Arg_post_validate_from(_, _, _, _)
Arg_post_validate_from(self, k, args, i) ==
    IF i > Len(self) THEN [r |-> Ok, args |-> args]
    ELSE IF ~Validator_post_validate(self[i], k, args).r.ok
         THEN Validator_post_validate(self[i], k, args)
         ELSE Arg_post_validate_from(self, k, Validator_post_validate(self[i], k, args).args,
                                     i + 1)

Arg_post_validate(self, k, args) == Arg_post_validate_from(self, k, args, 1)

\* --------------------------------------------------------------- state
VARIABLES
    impl,       \* which revision runs: "arg_parser" (ArgParser) or "argument_parser" (ArgumentParser)
    app,        \* the builder chains the calling application uses
    raw,        \* the process's argument list behind Peekable<std::env::Args>
    cursor,     \* index in raw of the token peek() returns; Len(raw) + 1 when exhausted
    parser,     \* ArgParser.args: the tiers, each [pos |-> Arg, params |-> <<[key, arg]>>]
    parsed,     \* ParsedArg.args: the records
    outcome,    \* what the last parse call returned: "none", Ok, an error, or Panic
    trace,      \* the steps of the last parse call, in order
    before,     \* what the last parse call started from (see Call)
    grown,      \* the schema was changed since the last parse call
    calls,      \* number of parse calls made
    params,     \* number of add_argument calls made
    given,      \* <<tier, key>> of the pairs recorded from tokens into this ParsedArg
    injected,   \* <<tier, key, record>> of the defaults injected into this ParsedArg
    forms,      \* one tier parsed over `k=v` and over `k`, `v` (see ParseForms)
    built,      \* an Arg under construction and the validators registered on it, in order
    checked,    \* an option-set validator, a value, and validate's answer (see Check)
    token,      \* a raw token and what ArgKey's functions answered on it
    origin,     \* per record of parsed, per pair: the cursor its token left, 0 for a default
    term,       \* a TerminalNodes value: [nodes, ident]
    emitter,    \* a ThreadedEmitter, its worker thread and its drop (see ThreadedEmitter_new)
    logs        \* the root logger's OnceLock and the calls made on it (see NoLogs)

vars == <<impl, app, raw, cursor, parser, parsed, outcome, trace, before, grown, calls,
          params, given, injected, forms, built, checked, token, origin, term, emitter, logs>>

\* ------------------------------------------------------------ cursor
\* Peekable::peek
peek(tokens, at) == IF at <= Len(tokens) THEN Some(tokens[at]) ELSE None

\* Peekable::next: no effect once exhausted
next(tokens, at) == IF at <= Len(tokens) THEN at + 1 ELSE at

\* ------------------------------------------------------- ParamTier
\* A parse in progress: [args, at, r, log]; r stays Ok while it runs
Step(st, ev) == [st EXCEPT !.log = Append(@, ev)]

Fail(st, e) == [st EXCEPT !.r = e]

\* index of the first (arg_key, arg) of the tier with arg_key == key, 0 if none
FindParam(tier, k) ==
    IF \E j \in 1..Len(tier.params) : tier.params[j].key = k
    THEN CHOOSE j \in 1..Len(tier.params) :
            /\ tier.params[j].key = k
            /\ \A h \in 1..(j - 1) : tier.params[h].key # k
    ELSE 0

\* the kind raised when an option is found where the positional is expected
NotPositionalKind == IF impl = "arg_parser" THEN "InvalidValue" ELSE "NotPositional"

\* the one element of a singleton: `Only({F(x) : x \in {e}})` is F with x bound
\* to the value of e, as `let x = e;` binds it in the source
Only(S) == CHOOSE x \in S : TRUE

\* the last step taken
Last(st) == st.log[Len(st.log)]

\* the Arg registered for key k in the tier (FindParam(tier, k) # 0)
ParamArg(tier, k) == tier.params[FindParam(tier, k)].arg

\* ArgValidator::validate(arg, value) of a keyed Arg, as a step
validated(arg, pos_id, k, value, st) ==
    Step(st, [e |-> "validate", tier |-> pos_id, key |-> Some(k), value |-> value,
              r |-> Arg_validate(arg, value), at |-> st.at])

record_first_in_place(pos_id, k, val, st, tokens) ==
    IF Len(st.args) = 0 THEN [st |-> Fail(st, Panic), run |-> FALSE]
    ELSE IF Len(st.args[Len(st.args)].parameters) = 0
    THEN [st |-> [Step(st, [e |-> "add_argument", tier |-> pos_id, key |-> k,
                            value |-> val])
                    EXCEPT !.args = add_parametric(st.args, k, val)],
          run |-> TRUE]
    ELSE [st |-> [Step(Step(st,
                    [e |-> "add_argument", tier |-> pos_id, key |-> k, value |-> val]),
                    [e |-> "next", at |-> st.at])
                    EXCEPT !.args = add_parametric(st.args, k, val),
                           !.at = next(tokens, st.at)],
          run |-> TRUE]

\* args.add_argument(key, value); raw_args.next()
record(pos_id, k, val, st, tokens) ==
    IF Len(st.args) = 0 THEN [st |-> Fail(st, Panic), run |-> FALSE]
    ELSE [st |-> [Step(Step(st,
                    [e |-> "add_argument", tier |-> pos_id, key |-> k, value |-> val]),
                    [e |-> "next", at |-> st.at])
                    EXCEPT !.args = add_parametric(st.args, k, val),
                           !.at = next(tokens, st.at)],
          run |-> TRUE]

settle_untagged(pos_id, k, st, tokens) ==
    IF ~Last(st).r.ok
    THEN [st |-> Fail(st, Last(st).r), run |-> FALSE]
    ELSE record(pos_id, k,
                IF Last(st).value.some THEN Last(st).value.v ELSE EmptyString,
                st, tokens)

\* the end of parse_params on the answer of the last validate: the error
\* tagged with the key, or the pair (key, value.unwrap_or_default()) recorded
settle(pos_id, k, st, tokens) ==
    IF ~Last(st).r.ok
    THEN [st |-> Fail(st, key(Last(st).r, KeyTag(k))), run |-> FALSE]
    ELSE record(pos_id, k,
                IF Last(st).value.some THEN Last(st).value.v ELSE EmptyString,
                st, tokens)

retry_no_advance(arg, pos_id, k, st, tokens) ==
    IF ~Last(st).r.ok /\ Last(st).r.kind = "NoValueGiven"
    THEN Only({settle(pos_id, k, s3, tokens) :
                 s3 \in {validated(arg, pos_id, k, peek(tokens, next(tokens, st.at)), st)}})
    ELSE settle(pos_id, k, st, tokens)

retry_unless_key(arg, pos_id, k, st, tokens) ==
    IF ~Last(st).r.ok /\ Last(st).r.kind = "NoValueGiven"
       /\ ~(peek(tokens, next(tokens, st.at)).some
              /\ is_arg_key(peek(tokens, next(tokens, st.at)).v))
    THEN Only({settle(pos_id, k, s3, tokens) :
                 s3 \in {validated(arg, pos_id, k, peek(tokens, next(tokens, st.at)),
                                   [Step(st, [e |-> "next", at |-> st.at])
                                      EXCEPT !.at = next(tokens, st.at)])}})
    ELSE settle(pos_id, k, st, tokens)

retry_greedy(arg, pos_id, k, st, tokens) ==
    IF ~Last(st).value.some
    THEN Only({settle(pos_id, k, s3, tokens) :
                 s3 \in {validated(arg, pos_id, k, peek(tokens, next(tokens, st.at)),
                                   [Step(st, [e |-> "next", at |-> st.at])
                                      EXCEPT !.at = next(tokens, st.at)])}})
    ELSE settle(pos_id, k, st, tokens)

\* parse_params after validate of the inline value: on NoValueGiven,
\* raw_args.next() and validate of raw_args.peek() as the value
retry(arg, pos_id, k, st, tokens) ==
    IF ~Last(st).r.ok /\ Last(st).r.kind = "NoValueGiven"
    THEN Only({settle(pos_id, k, s3, tokens) :
                 s3 \in {validated(arg, pos_id, k, peek(tokens, next(tokens, st.at)),
                                   [Step(st, [e |-> "next", at |-> st.at])
                                      EXCEPT !.at = next(tokens, st.at)])}})
    ELSE settle(pos_id, k, st, tokens)

parse_params_no_retry(tier, pos_id, k, value, st, tokens) ==
    IF FindParam(tier, k) = 0 THEN [st |-> st, run |-> FALSE]
    ELSE Only({settle(pos_id, k, s1, tokens) :
                 s1 \in {validated(ParamArg(tier, k), pos_id, k, value, st)}})

\* ParamTier::parse_params / ArgStructure::parse_param with the matching loop:
\* validate the inline value; on NoValueGiven advance and validate the next
\* token as the value; record (key, value) and advance past it
parse_params(tier, pos_id, k, value, st, tokens) ==
    IF FindParam(tier, k) = 0 THEN [st |-> st, run |-> FALSE]
    ELSE Only({retry(ParamArg(tier, k), pos_id, k, s1, tokens) :
                 s1 \in {validated(ParamArg(tier, k), pos_id, k, value, st)}})

\* validate of the positional token, as a step
pos_validated(tier, pos_id, st, tokens) ==
    Step(st, [e |-> "validate", tier |-> pos_id, key |-> None,
              value |-> Some(tokens[st.at]),
              r |-> Arg_validate(tier.pos, Some(tokens[st.at])), at |-> st.at])

\* args.add_positional_argument(current_arg) and the positional Arg's
\* post_validate(None, args), whose answer is pv, as steps
pos_recorded(pos_id, st, tokens, pv) ==
    [Step(Step(st, [e |-> "add_positional", tier |-> pos_id, value |-> tokens[st.at]]),
          [e |-> "post_validate", tier |-> pos_id, key |-> None, r |-> pv.r,
           added |-> pv.args # add_positional(st.args, tokens[st.at])])
       EXCEPT !.args = pv.args]

\* the end of the positional part on post_validate's answer: the error tagged
\* with the tier, or raw_args.next()
pos_settle(pos_id, st, tokens) ==
    IF ~Last(st).r.ok
    THEN Fail(st, IF Last(st).r = Panic THEN Panic ELSE key(Last(st).r, TierTag(pos_id)))
    ELSE [Step(st, [e |-> "next", at |-> st.at]) EXCEPT !.at = next(tokens, st.at)]

parse_pos_push_first(tier, pos_id, st, tokens, parse_positional) ==
    IF ~(parse_positional /\ peek(tokens, st.at).some) THEN st
    ELSE IF is_arg_key(tokens[st.at])
    THEN Fail(st, key(Err(NotPositionalKind), TierTag(pos_id)))
    ELSE Only({
           IF ~Last(s1).r.ok
           THEN Fail([s1 EXCEPT !.args = add_positional(@, tokens[st.at])],
                     key(Last(s1).r, TierTag(pos_id)))
           ELSE Only({pos_settle(pos_id, s3, tokens) :
                        s3 \in {pos_recorded(pos_id, s1, tokens, pv) :
                                  pv \in {Arg_post_validate(tier.pos, None,
                                            add_positional(s1.args, tokens[s1.at]))}}})
           : s1 \in {pos_validated(tier, pos_id, st, tokens)}})

parse_pos_or_missing(tier, pos_id, st, tokens, parse_positional) ==
    IF ~parse_positional THEN st
    ELSE IF ~peek(tokens, st.at).some
    THEN Fail(st, key(Err("NoValueGiven"), TierTag(pos_id)))
    ELSE IF is_arg_key(tokens[st.at])
    THEN Fail(st, key(Err(NotPositionalKind), TierTag(pos_id)))
    ELSE Only({
           IF ~Last(s1).r.ok THEN Fail(s1, key(Last(s1).r, TierTag(pos_id)))
           ELSE Only({pos_settle(pos_id, s3, tokens) :
                        s3 \in {pos_recorded(pos_id, s1, tokens, pv) :
                                  pv \in {Arg_post_validate(tier.pos, None,
                                            add_positional(s1.args, tokens[s1.at]))}}})
           : s1 \in {pos_validated(tier, pos_id, st, tokens)}})

\* ParamTier::parse, the positional part (arg_parser.rs 66-79)
parse_pos(tier, pos_id, st, tokens, parse_positional) ==
    IF ~(parse_positional /\ peek(tokens, st.at).some) THEN st
    ELSE IF is_arg_key(tokens[st.at])
    THEN Fail(st, key(Err(NotPositionalKind), TierTag(pos_id)))
    ELSE Only({
           IF ~Last(s1).r.ok THEN Fail(s1, key(Last(s1).r, TierTag(pos_id)))
           ELSE Only({pos_settle(pos_id, s3, tokens) :
                        s3 \in {pos_recorded(pos_id, s1, tokens, pv) :
                                  pv \in {Arg_post_validate(tier.pos, None,
                                            add_positional(s1.args, tokens[s1.at]))}}})
           : s1 \in {pos_validated(tier, pos_id, st, tokens)}})

\* one turn of the keyed loop on the token under the cursor (st.r.ok): a
\* "loop" step, then parse_params when the token parses as a key
RECURSIVE parse_loop(_, _, _, _)
parse_loop_skip_unknown(tier, pos_id, st, tokens) ==
    IF ~st.r.ok THEN st
    ELSE Only({
           IF ~peek(tokens, s0.at).some THEN s0
           ELSE Only({
                  IF ~parsed_arg.ok THEN s0
                  ELSE Only({IF one.run THEN parse_loop(tier, pos_id, one.st, tokens)
                             ELSE [one.st EXCEPT !.at = next(tokens, @)] :
                               one \in {parse_params(tier, pos_id, parsed_arg.key,
                                                     parsed_arg.value, s0, tokens)}})
                  : parsed_arg \in {from_cmd(tokens[s0.at])}})
           : s0 \in {Step(st, [e |-> "loop", tier |-> pos_id, at |-> st.at])}})

\* ParamTier::parse, the keyed loop (arg_parser.rs 80-86): while a token is
\* left and it parses as a key that parse_params finds in the tier
parse_loop(tier, pos_id, st, tokens) ==
    IF ~st.r.ok THEN st
    ELSE Only({
           IF ~peek(tokens, s0.at).some THEN s0
           ELSE Only({
                  IF ~parsed_arg.ok THEN s0
                  ELSE Only({IF one.run THEN parse_loop(tier, pos_id, one.st, tokens)
                             ELSE one.st :
                               one \in {parse_params(tier, pos_id, parsed_arg.key,
                                                     parsed_arg.value, s0, tokens)}})
                  : parsed_arg \in {from_cmd(tokens[s0.at])}})
           : s0 \in {Step(st, [e |-> "loop", tier |-> pos_id, at |-> st.at])}})

\* post_validate(Some(arg_key), args) of one keyed Arg, whose answer is pv, as a
\* step: the error is tagged with the key
post_validated(pos_id, arg_key, st, pv) ==
    IF ~pv.r.ok
    THEN Fail([Step(st, [e |-> "post_validate", tier |-> pos_id, key |-> Some(arg_key),
                         r |-> pv.r, added |-> pv.args # st.args,
                         into |-> Len(pv.args) - 1])
                 EXCEPT !.args = pv.args],
              IF pv.r = Panic THEN Panic ELSE key(pv.r, KeyTag(arg_key)))
    ELSE [Step(st, [e |-> "post_validate", tier |-> pos_id, key |-> Some(arg_key),
                    r |-> pv.r, added |-> pv.args # st.args,
                    into |-> Len(pv.args) - 1])
            EXCEPT !.args = pv.args]

RECURSIVE parse_post_all(_, _, _, _)
parse_post_all(tier, pos_id, st, j) ==
    IF j > Len(tier.params) THEN st
    ELSE Only({parse_post_all(tier, pos_id, s1, j + 1) :
                 s1 \in {post_validated(pos_id, tier.params[j].key, st, pv) :
                           pv \in {Arg_post_validate(tier.params[j].arg,
                                                     Some(tier.params[j].key), st.args)}}})

\* ParamTier::parse, post_validate of every keyed Arg (arg_parser.rs 87-90)
RECURSIVE parse_post(_, _, _, _)
parse_post(tier, pos_id, st, j) ==
    IF ~st.r.ok \/ j > Len(tier.params) THEN st
    ELSE Only({parse_post(tier, pos_id, s1, j + 1) :
                 s1 \in {post_validated(pos_id, tier.params[j].key, st, pv) :
                           pv \in {Arg_post_validate(tier.params[j].arg,
                                                     Some(tier.params[j].key), st.args)}}})

\* ParamTier::parse / ArgStructure::parse
ParamTier_parse(tier, pos_id, st, tokens, parse_positional) ==
    Only({parse_post(tier, pos_id, s2, 1) :
            s2 \in {parse_loop(tier, pos_id, s1, tokens) :
                      s1 \in {parse_pos(tier, pos_id, s0, tokens, parse_positional) :
                                s0 \in {Step(st, [e |-> "parse", tier |-> pos_id,
                                                  parse_positional |-> parse_positional,
                                                  len |-> Len(st.args), at |-> st.at])}}}})

\* ------------------------------------------------------ Arg builders
\* Arg::new
Arg_new == << >>

\* Arg::validate (arg.rs): the builder that registers a validator
validate(self, validator) == Append(self, validator)

\* Arg::add_validator (argument.rs): swap into the slot of the validator with
\* the same validator_id, push when there is none
add_validator(self, v) ==
    IF \E i \in 1..Len(self) : self[i].id = v.id
    THEN LET slot == CHOOSE i \in 1..Len(self) :
                        self[i].id = v.id /\ \A h \in 1..(i - 1) : self[h].id # v.id
         IN  [self EXCEPT ![slot] = v]
    ELSE Append(self, v)

\* the registration the running revision performs
Register(self, v) ==
    IF impl = "arg_parser" THEN validate(self, v) ELSE add_validator(self, v)

with_default(self, value) == Register(self, DefaultArg(value))
n_equal_to(self, value) == Register(self, ArgCountValidator(value, value))
n_range(self, min_size, max_size) == Register(self, ArgCountValidator(min_size, max_size))
\* Arg::require_value (arg.rs) / Arg::not_empty (argument.rs)
require_value(self) == Register(self, ArgEmptyValidator(FALSE))
as_flag(self) == Register(self, ArgEmptyValidator(TRUE))
required(self) == n_equal_to(require_value(self), 1)
optional(self) == n_range(self, 0, 1)
\* Arg::positional (argument.rs)
positional == n_equal_to(Arg_new, 1)

\* ---------------------------------------------------------- ArgParser
ParamTier(pos) == [pos |-> pos, params |-> << >>]

\* ArgParser::default / ArgumentParser::default: one tier
ArgParser_default ==
    IF impl = "arg_parser" THEN <<ParamTier(require_value(Arg_new))>>
    ELSE <<ParamTier(positional)>>

RECURSIVE incremental_from_always_positional(_, _, _, _)
incremental_from_always_positional(tiers, st, tokens, i) ==
    IF ~st.r.ok \/ i >= Len(tiers) THEN st
    ELSE Only({incremental_from_always_positional(tiers, s, tokens, i + 1) :
                 s \in {ParamTier_parse(tiers[i + 1], i, st, tokens, TRUE)}})

\* ArgParser::incremental_parse / ArgumentParser::parse_mut_args, tiers i.. (from 0)
RECURSIVE incremental_from(_, _, _, _)
incremental_from(tiers, st, tokens, i) ==
    IF ~st.r.ok \/ i >= Len(tiers) THEN st
    ELSE Only({incremental_from(tiers, s, tokens, i + 1) :
                 s \in {ParamTier_parse(tiers[i + 1], i, st, tokens, Len(st.args) <= i)}})

arg_beg_id_zero(args) == 0

\* arg_beg_id of incremental_parse: max(0, len - 1)
arg_beg_id(args) == IF Len(args) = 0 THEN 0 ELSE Len(args) - 1

incremental_parse_from_next(tiers, args, tokens, at) ==
    incremental_from(tiers, [args |-> args, at |-> at, r |-> Ok, log |-> << >>],
                     tokens, Len(args))

incremental_parse(tiers, args, tokens, at) ==
    incremental_from(tiers, [args |-> args, at |-> at, r |-> Ok, log |-> << >>],
                     tokens, arg_beg_id(args))

\* what a call starts from: the ParsedArg and the cursor, and whether the
\* schema was changed since the call before
Call(args, at, changed) == [args |-> args, at |-> at, grown |-> changed]

\* ------------------------------------------------------------- inputs
\* raw tokens: two keys, one inline form, two values
T_a == <<"-", "a">>
T_a_x == <<"-", "a", "=", "x">>
T_b == <<"-", "b">>
T_x == <<"x">>
T_y == <<"y">>
Tokens == {T_a, T_a_x, T_b, T_x, T_y}
RawLists == UNION {[1..n -> Tokens] : n \in 0..MaxTokens}
Keys == {T_a, T_b}

\* The builder chains of this repository's callers (examples/main.rs,
\* action_builder.rs, app.rs); an application registers its keyed Args with a
\* few of them and its positionals with one.  DefaultArg exists in arg.rs only.
Apps ==
    {[impl |-> "arg_parser", keyed |-> {"required", "new"}, pos |-> "options.required"],
     [impl |-> "arg_parser", keyed |-> {"require_value.with_default", "new"},
      pos |-> "require_value"],
     [impl |-> "arg_parser", keyed |-> {"options.required", "require_value.optional"},
      pos |-> "require_value"],
     [impl |-> "argument_parser", keyed |-> {"required", "new"}, pos |-> "options.required"],
     [impl |-> "argument_parser", keyed |-> {"options.required", "require_value.optional"},
      pos |-> "new"]}

Build(chain, base) ==
    CASE chain = "new" -> base
      [] chain = "require_value.optional" -> optional(require_value(base))
      [] chain = "required" -> required(base)
      [] chain = "require_value" -> require_value(base)
      [] chain = "require_value.with_default" -> with_default(require_value(base), T_y)
      [] chain = "options.required" -> required(Register(base, ArgOptionValidator(<<T_x>>)))

\* no Arg under construction, no validator under check
NoArg == [arg |-> Arg_new, regs |-> << >>]
NoCheck == [done |-> FALSE]
\* TerminalNodes::default(), Self::new(0)
NoTerm == [nodes |-> <<[t |-> "Indent", n |-> 0]>>, ident |-> 0]
NoToken == [arg |-> EmptyString, is_arg_key |-> None, new |-> None, from_cmd |-> None]

\* ThreadedEmitter::new: the channel is empty, is_running is true and the
\* worker is about to call try_recv. The worker reads the flag through a
\* pointer to new's local is_running, which is moved into the returned
\* struct: `placed` is "in_place" when the build keeps the flag at that
\* address and "moved" when the worker is left with the dead slot, whose
\* content is `slot`.
\*   queue     messages in the channel          worker   the worker's position
\*   msg       the message the worker holds     thread   the drop's position
\*   accepted  messages emit returned Ok on     handed   [msg, ok] per wrapped emit
\*   seen      the flag value the worker read last
ThreadedEmitter_new(placed) ==
    [queue |-> << >>, is_running |-> TRUE, slot |-> TRUE, placed |-> placed,
     worker |-> "try_recv", msg |-> EmptyString, thread |-> "alive",
     accepted |-> << >>, handed |-> << >>, seen |-> None, emits |-> 0, r |-> Ok]
NoEmitter == ThreadedEmitter_new("in_place")

\* Logger::default()
Logger_default ==
    [filter |-> "NoFilter", formatter |-> "ColorfulFormatter", emitter |-> "StdoutEmitter"]
\* static ROOT_LOG: OnceLock<Logger> = OnceLock::new()
ROOT_LOG == None
\* the root logger of revision rev ("log": log/logger.rs, "logger": logger.rs):
\* its cell and, per call made on it, [op, logger, r, cell]
NoLogs == [rev |-> "log", cell |-> ROOT_LOG, done |-> << >>]

\* --------------------------------------------------------------- Init
Init ==
    /\ app \in Apps
    /\ impl = app.impl
    /\ raw \in RawLists
    /\ cursor = 1
    /\ parser = ArgParser_default
    /\ parsed = << >>
    /\ outcome = Ok
    /\ trace = << >>
    /\ before = Call(<< >>, 1, FALSE)
    /\ grown = FALSE
    /\ calls = 0
    /\ params = 0
    /\ given = {}
    /\ injected = {}
    /\ forms = [done |-> FALSE]
    /\ built = NoArg
    /\ checked = NoCheck
    /\ token = NoToken
    /\ origin = << >>
    /\ term = NoTerm
    /\ emitter = NoEmitter
    /\ logs = NoLogs

\* the process is alive: no call has aborted
Alive == outcome # Panic

\* ------------------------------------------------------------ actions
\* ArgParser::add_positional_argument(arg) / ArgumentParser::add_positional()
\* followed by the builder calls on the returned Arg
add_positional_argument(chain) ==
    /\ Alive
    /\ Len(parser) < MaxTiers
    /\ parser' = Append(parser,
                   ParamTier(IF impl = "arg_parser" THEN Build(chain, Arg_new)
                             ELSE Build(chain, positional)))
    /\ grown' = TRUE
    /\ UNCHANGED <<impl, app, raw, cursor, parsed, outcome, trace, before, calls, params, given, injected, forms, built, checked, token, origin, term, emitter, logs>>

\* ArgParser::add_argument(k, arg): swap the Arg of a registered key in place,
\* push otherwise.  ArgStructure::add_argument(k): return the registered Arg,
\* or a pushed Arg::new(), and the builder calls then act on it.
add_argument(tiers, k, chain) ==
    LET last == Len(tiers)
        j == FindParam(tiers[last], k)
    IN  IF j = 0
        THEN [tiers EXCEPT ![last].params =
                 Append(@, [key |-> k, arg |-> Build(chain, Arg_new)])]
        ELSE IF impl = "arg_parser"
             THEN [tiers EXCEPT ![last].params[j].arg = Build(chain, Arg_new)]
             ELSE [tiers EXCEPT ![last].params[j].arg = Build(chain, @)]

AddArgument(k, chain) ==
    /\ Alive
    /\ params < MaxParams
    /\ parser' = add_argument(parser, k, chain)
    /\ params' = params + 1
    /\ grown' = TRUE
    /\ UNCHANGED <<impl, app, raw, cursor, parsed, outcome, trace, before, calls, given, injected, forms, built, checked, token, origin, term, emitter, logs>>

\* the pairs a call recorded from tokens, and the defaults it injected
Given(log) ==
    {<<log[i].tier, log[i].key>> : i \in {h \in 1..Len(log) : log[h].e = "add_argument"}}
Injected(log) ==
    {<<log[i].tier, log[i].key.v, log[i].into>> :
        i \in {h \in 1..Len(log) :
                  log[h].e = "post_validate" /\ log[h].key.some /\ log[h].added}}

\* where the pairs of a call's records come from, step by step: a record
\* pushed (parsed_arg.rs 119-122), a pair pushed for a token, noted with the
\* cursor it left (arg_parser.rs 51-52), a pair pushed by a default, noted 0
\* (arg.rs 222)
RECURSIVE Origins(_, _, _)
Origins(og, log, i) ==
    IF i > Len(log) THEN og
    ELSE IF log[i].e = "add_positional" THEN Origins(Append(og, << >>), log, i + 1)
    ELSE IF log[i].e = "add_argument"
         THEN Origins([og EXCEPT ![Len(og)] = Append(@, log[i + 1].at)], log, i + 1)
    ELSE IF log[i].e = "post_validate" /\ log[i].added
         THEN Origins([og EXCEPT ![Len(og)] = Append(@, 0)], log, i + 1)
    ELSE Origins(og, log, i + 1)

\* ArgParser::incremental_parse(args, raw_args) / ArgumentParser::parse_mut_args(values)
IncrementalParse ==
    /\ Alive
    /\ calls < MaxCalls
    /\ \E st \in {incremental_parse(parser, parsed, raw, cursor)} :
         /\ parsed' = st.args
         /\ cursor' = st.at
         /\ outcome' = st.r
         /\ trace' = st.log
         /\ given' = given \cup Given(st.log)
         /\ injected' = injected \cup Injected(st.log)
         /\ origin' = Origins(origin, st.log, 1)
    /\ before' = Call(parsed, cursor, grown)
    /\ grown' = FALSE
    /\ calls' = calls + 1
    /\ UNCHANGED <<impl, app, raw, parser, params, forms, built, checked, token, term, emitter, logs>>

\* ArgParser::parse(raw_args): incremental_parse on a new ParsedArg over the
\* caller's cursor.  ArgumentParser::parse_args(): ParsedArg::default() also
\* holds a new iterator over the whole argument list.  On Err the new
\* ParsedArg is dropped with the call; `parsed` keeps what it held then.
Parse ==
    /\ Alive
    /\ calls < MaxCalls
    /\ \E at0 \in {IF impl = "arg_parser" THEN cursor ELSE 1} :
       \E st \in {incremental_parse(parser, << >>, raw, at0)} :
         /\ parsed' = st.args
         /\ cursor' = st.at
         /\ outcome' = st.r
         /\ trace' = st.log
         /\ given' = Given(st.log)
         /\ injected' = Injected(st.log)
         /\ origin' = Origins(<< >>, st.log, 1)
         /\ before' = Call(<< >>, at0, grown)
    /\ grown' = FALSE
    /\ calls' = calls + 1
    /\ UNCHANGED <<impl, app, raw, parser, params, forms, built, checked, token, term, emitter, logs>>

Next ==
    \/ add_positional_argument(app.pos)
    \/ \E k \in Keys, chain \in app.keyed : AddArgument(k, chain)
    \/ IncrementalParse
    \/ Parse

Spec == Init /\ [][Next]_vars

\* ---------------------------------------- a positional with a default
\* an application whose positionals are built with with_default (arg.rs 282-284)
DefaultApp ==
    [impl |-> "arg_parser", keyed |-> {"require_value.with_default", "new"},
     pos |-> "require_value.with_default"]

InitDefault ==
    /\ app = DefaultApp
    /\ impl = app.impl
    /\ raw \in RawLists
    /\ cursor = 1
    /\ parser = ArgParser_default
    /\ parsed = << >>
    /\ outcome = Ok
    /\ trace = << >>
    /\ before = Call(<< >>, 1, FALSE)
    /\ grown = FALSE
    /\ calls = 0
    /\ params = 0
    /\ given = {}
    /\ injected = {}
    /\ forms = [done |-> FALSE]
    /\ built = NoArg
    /\ checked = NoCheck
    /\ token = NoToken
    /\ origin = << >>
    /\ term = NoTerm
    /\ emitter = NoEmitter
    /\ logs = NoLogs

SpecDefault == InitDefault /\ [][Next]_vars

\* ------------------------------------------- the two forms of an option
\* values given to an option: plain, empty, and one holding '='
Values == {T_x, T_y, EmptyString, <<"x", "=", "y">>}
RestLists == {<< >>, <<T_x>>, <<T_a>>, <<T_b>>}

\* the token `k=v`
Inline(k, v) == k \o <<"=">> \o v

\* a tier with the positional of ArgParser::default and one keyed Arg
FormsTier(k, chain) ==
    [pos |-> require_value(Arg_new), params |-> <<[key |-> k, arg |-> Build(chain, Arg_new)]>>]

InitForms ==
    /\ app \in Apps
    /\ impl = app.impl
    /\ raw = << >>
    /\ cursor = 1
    /\ parser = ArgParser_default
    /\ parsed = << >>
    /\ outcome = Ok
    /\ trace = << >>
    /\ before = Call(<< >>, 1, FALSE)
    /\ grown = FALSE
    /\ calls = 0
    /\ params = 0
    /\ given = {}
    /\ injected = {}
    /\ \E k \in Keys, chain \in app.keyed, v \in Values, rest \in RestLists :
         forms = [done |-> FALSE, k |-> k, v |-> v, chain |-> chain, rest |-> rest]
    /\ built = NoArg
    /\ checked = NoCheck
    /\ token = NoToken
    /\ origin = << >>
    /\ term = NoTerm
    /\ emitter = NoEmitter
    /\ logs = NoLogs

\* ParamTier::parse of tier 0 on a new ParsedArg, once over <<p, `k=v`>> \o rest
\* and once over <<p, `k`, `v`>> \o rest
ParseForms ==
    /\ ~forms.done
    /\ \E tier \in {FormsTier(forms.k, forms.chain)},
          st0 \in {[args |-> << >>, at |-> 1, r |-> Ok, log |-> << >>]},
          one \in {<<T_x, Inline(forms.k, forms.v)>> \o forms.rest},
          two \in {<<T_x, forms.k, forms.v>> \o forms.rest} :
       \E s1 \in {ParamTier_parse(tier, 0, st0, one, TRUE)},
          s2 \in {ParamTier_parse(tier, 0, st0, two, TRUE)} :
           forms' = [done |-> TRUE, k |-> forms.k, v |-> forms.v,
                     chain |-> forms.chain, rest |-> forms.rest,
                     one |-> [args |-> s1.args, r |-> s1.r,
                              left |-> SubSeq(one, s1.at, Len(one))],
                     two |-> [args |-> s2.args, r |-> s2.r,
                              left |-> SubSeq(two, s2.at, Len(two))]]
    /\ UNCHANGED <<impl, app, raw, cursor, parser, parsed, outcome, trace, before, grown,
                   calls, params, given, injected, built, checked, token, origin, term, emitter, logs>>

SpecForms == InitForms /\ [][ParseForms]_vars

\* ------------------------------------------------ building one Arg
\* the values handed to the builders
OptionLists == {<<T_x>>, <<T_y>>, <<T_x, T_y>>}
Defaults == {T_x, T_y}

Quiet == /\ raw = << >>
         /\ cursor = 1
         /\ parser = ArgParser_default
         /\ parsed = << >>
         /\ outcome = Ok
         /\ trace = << >>
         /\ before = Call(<< >>, 1, FALSE)
         /\ grown = FALSE
         /\ calls = 0
         /\ params = 0
         /\ given = {}
         /\ injected = {}
         /\ forms = [done |-> FALSE]

InitArg ==
    /\ app \in Apps
    /\ impl = app.impl
    /\ Quiet
    /\ built = NoArg
    /\ checked = NoCheck
    /\ token = NoToken
    /\ origin = << >>
    /\ term = NoTerm
    /\ emitter = NoEmitter
    /\ logs = NoLogs

\* one builder call on the Arg: `arg` is what the builder returns, `regs` the
\* validators it handed to Arg::validate / Arg::add_validator
Builder(arg, regs) ==
    /\ Len(built.regs) + Len(regs) <= MaxBuilds
    /\ built' = [arg |-> arg, regs |-> built.regs \o regs]
    /\ UNCHANGED <<impl, app, raw, cursor, parser, parsed, outcome, trace, before, grown,
                   calls, params, given, injected, forms, checked, token, origin, term, emitter, logs>>

BuildValidate ==
    \E options \in OptionLists :
        Builder(Register(built.arg, ArgOptionValidator(options)),
                <<ArgOptionValidator(options)>>)
BuildWithDefault ==
    /\ impl = "arg_parser"
    /\ \E value \in Defaults :
         Builder(with_default(built.arg, value), <<DefaultArg(value)>>)
BuildNEqualTo ==
    \E value \in 1..2 :
        Builder(n_equal_to(built.arg, value), <<ArgCountValidator(value, value)>>)
BuildRequireValue == Builder(require_value(built.arg), <<ArgEmptyValidator(FALSE)>>)
BuildAsFlag == Builder(as_flag(built.arg), <<ArgEmptyValidator(TRUE)>>)
BuildRequired ==
    Builder(required(built.arg), <<ArgEmptyValidator(FALSE), ArgCountValidator(1, 1)>>)
BuildOptional == Builder(optional(built.arg), <<ArgCountValidator(0, 1)>>)

NextArg ==
    \/ BuildValidate
    \/ BuildWithDefault
    \/ BuildNEqualTo
    \/ BuildRequireValue
    \/ BuildAsFlag
    \/ BuildRequired
    \/ BuildOptional

SpecArg == InitArg /\ [][NextArg]_vars

\* --------------------------------------- the option-set validator alone
OptionWords == {T_x, T_y, <<"x", "y">>, EmptyString}
CheckedOptions == UNION {[1..n -> OptionWords] : n \in 0..MaxOptions}
CheckedValues == {None} \cup {Some(w) : w \in OptionWords \cup {<<"X">>, <<"x", "y", "x">>}}

InitOption ==
    /\ app \in Apps
    /\ impl = app.impl
    /\ Quiet
    /\ built = NoArg
    /\ \E options \in CheckedOptions, v \in CheckedValues :
         checked = [done |-> FALSE, self |-> ArgOptionValidator(options), v |-> v]
    /\ token = NoToken
    /\ origin = << >>
    /\ term = NoTerm
    /\ emitter = NoEmitter
    /\ logs = NoLogs

\* validator.validate(v) on the option-set validator
Check ==
    /\ ~checked.done
    /\ checked' = [done |-> TRUE, self |-> checked.self, v |-> checked.v,
                   r |-> ArgOptionValidator_validate(checked.self, checked.v)]
    /\ UNCHANGED <<impl, app, raw, cursor, parser, parsed, outcome, trace, before, grown,
                   calls, params, given, injected, forms, built, token, origin, term, emitter, logs>>

SpecOption == InitOption /\ [][Check]_vars

\* ------------------------------------------------------ ArgKey alone
\* tokens over a dash, an equals sign and a letter
KeyChars == {"-", "=", "a"}
KeyTokens == UNION {[1..n -> KeyChars] : n \in 0..MaxKeyLen}

InitKey ==
    /\ app \in Apps
    /\ impl = app.impl
    /\ Quiet
    /\ built = NoArg
    /\ checked = NoCheck
    /\ \E arg \in KeyTokens : token = [NoToken EXCEPT !.arg = arg]
    /\ origin = << >>
    /\ term = NoTerm
    /\ emitter = NoEmitter
    /\ logs = NoLogs

\* ArgKey::is_arg_key(token)
IsArgKey ==
    /\ ~token.is_arg_key.some
    /\ token' = [token EXCEPT !.is_arg_key = Some(is_arg_key(token.arg))]
    /\ UNCHANGED <<impl, app, raw, cursor, parser, parsed, outcome, trace, before, grown,
                   calls, params, given, injected, forms, built, checked, origin, term, emitter, logs>>

\* ArgKey::new(token)
New ==
    /\ ~token.new.some
    /\ token' = [token EXCEPT !.new = Some(ArgKey_new(token.arg))]
    /\ UNCHANGED <<impl, app, raw, cursor, parser, parsed, outcome, trace, before, grown,
                   calls, params, given, injected, forms, built, checked, origin, term, emitter, logs>>

\* ArgKey::from_cmd(token)
FromCmd ==
    /\ ~token.from_cmd.some
    /\ token' = [token EXCEPT !.from_cmd = Some(from_cmd(token.arg))]
    /\ UNCHANGED <<impl, app, raw, cursor, parser, parsed, outcome, trace, before, grown,
                   calls, params, given, injected, forms, built, checked, origin, term, emitter, logs>>

NextKey ==
    \/ IsArgKey
    \/ New
    \/ FromCmd

SpecKey == InitKey /\ [][NextKey]_vars

\* ------------------------------------------------------ TerminalNodes
\* TerminalNode; the TextFormat of Begin plays no part in the node list
Node_Begin == [t |-> "Begin"]
Node_End == [t |-> "End"]
Node_Text(text) == [t |-> "Text", text |-> text]
Node_NewLine == [t |-> "NewLine"]
Node_Indent(n) == [t |-> "Indent", n |-> n]

\* TerminalNodes::new(ident)
TerminalNodes_new(ident) == [nodes |-> <<Node_Indent(ident)>>, ident |-> ident]

\* TerminalNodes::append_node: after a NewLine, Indent(self.ident) goes first
append_node(self, n) ==
    IF Len(self.nodes) = 0 THEN [self EXCEPT !.nodes = Append(@, n)]
    ELSE IF self.nodes[Len(self.nodes)] = Node_NewLine
         THEN [self EXCEPT !.nodes = Append(Append(@, Node_Indent(self.ident)), n)]
         ELSE [self EXCEPT !.nodes = Append(@, n)]

\* TerminalNodes::append_sub_node: append_node of every node of sub_nodes, from the i-th
RECURSIVE append_sub_node_from(_, _, _)
append_sub_node_from(self, sub_nodes, i) ==
    IF i > Len(sub_nodes.nodes) THEN self
    ELSE append_sub_node_from(append_node(self, sub_nodes.nodes[i]), sub_nodes, i + 1)

append_sub_node(self, sub_nodes) == append_sub_node_from(self, sub_nodes, 1)

\* TerminalNodes::begin_format
begin_format(self) == append_node(self, Node_Begin)

\* TerminalNodes::end_format: End is pushed as it is
end_format(self) == [self EXCEPT !.nodes = Append(@, Node_End)]

\* TerminalNodes::new_line
new_line(self) == append_node(self, Node_NewLine)

\* TerminalNodes::with_format(fmt, node, ident)
with_format(node, ident) ==
    end_format(append_node(begin_format(TerminalNodes_new(ident)), node))

\* indentations, and the values handed to append_sub_node
Indents == {0, 2}
SubNodes ==
    {append_node(TerminalNodes_new(4), Node_Text("b")),
     append_node(new_line(TerminalNodes_new(4)), Node_Text("b")),
     new_line(TerminalNodes_new(4)),
     with_format(Node_Text("b"), 4)}

InitTerminal ==
    /\ app \in Apps
    /\ impl = app.impl
    /\ Quiet
    /\ built = NoArg
    /\ checked = NoCheck
    /\ token = NoToken
    /\ origin = << >>
    /\ \E ident \in Indents : term = TerminalNodes_new(ident)
    /\ emitter = NoEmitter
    /\ logs = NoLogs

\* the other variables while a TerminalNodes value is built
TermOnly ==
    UNCHANGED <<impl, app, raw, cursor, parser, parsed, outcome, trace, before, grown,
                calls, params, given, injected, forms, built, checked, token, origin,
                emitter, logs>>

AppendNode ==
    /\ Len(term.nodes) < MaxNodes
    /\ term' = append_node(term, Node_Text("a"))
    /\ TermOnly

AppendSubNode ==
    /\ Len(term.nodes) < MaxNodes
    /\ \E sub_nodes \in SubNodes : term' = append_sub_node(term, sub_nodes)
    /\ TermOnly

BeginFormat ==
    /\ Len(term.nodes) < MaxNodes
    /\ term' = begin_format(term)
    /\ TermOnly

EndFormat ==
    /\ Len(term.nodes) < MaxNodes
    /\ term' = end_format(term)
    /\ TermOnly

NewLine ==
    /\ Len(term.nodes) < MaxNodes
    /\ term' = new_line(term)
    /\ TermOnly

NextTerminal ==
    \/ AppendNode
    \/ AppendSubNode
    \/ BeginFormat
    \/ EndFormat
    \/ NewLine

SpecTerminal == InitTerminal /\ [][NextTerminal]_vars

\* ------------------------------------------------------ ThreadedEmitter
\* messages handed to a ThreadedEmitter
MaxMessages == 3
Messages == {<<"a">>, <<"b">>}

\* where the build leaves the flag the worker reads
Placements == {"in_place", "moved"}

\* Emitter::emit of ThreadedEmitter: sender.send(v), Err once the receiver
\* was dropped with the worker's closure
ThreadedEmitter_emit(e, v) ==
    IF e.worker = "done"
    THEN [e EXCEPT !.emits = @ + 1, !.r = Err("Io")]
    ELSE [e EXCEPT !.emits = @ + 1, !.r = Ok,
                   !.queue = Append(@, v), !.accepted = Append(@, v)]

\* receiver.try_recv(): Ok(msg) takes the oldest message, Err(_) goes on to
\* the flag
try_recv(e) ==
    IF Len(e.queue) > 0
    THEN [e EXCEPT !.msg = Head(e.queue), !.queue = Tail(@), !.worker = "emit"]
    ELSE [e EXCEPT !.worker = "load"]

wrapped_emit_stop_on_err(e, r) ==
    [e EXCEPT !.handed = Append(@, [msg |-> e.msg, ok |-> r.ok]), !.msg = EmptyString,
              !.worker = IF r.ok THEN "try_recv" ELSE "done"]

\* emitter.emit(msg) returned r: an Err is printed and the loop goes on
wrapped_emit(e, r) ==
    [e EXCEPT !.handed = Append(@, [msg |-> e.msg, ok |-> r.ok]), !.msg = EmptyString,
              !.worker = "try_recv"]

\* is_running_ref.load(Acquire): the flag when the build kept it in place,
\* the dead slot's content otherwise
is_running_ref_load(e) == IF e.placed = "in_place" THEN e.is_running ELSE e.slot

\* match is_running_ref.load(..) { true => { yield_now(); continue } false => break }
load(e) ==
    [e EXCEPT !.seen = Some(is_running_ref_load(e)),
              !.worker = IF is_running_ref_load(e) THEN "try_recv" ELSE "done"]

\* Drop::drop: self.is_running.store(false, Release)
drop_store(e) == [e EXCEPT !.is_running = FALSE, !.thread = "join"]

\* Drop::drop: handle.join().unwrap() has returned
drop_join(e) == [e EXCEPT !.thread = "returned"]

InitEmitter ==
    /\ app = DefaultApp
    /\ impl = app.impl
    /\ Quiet
    /\ built = NoArg
    /\ checked = NoCheck
    /\ token = NoToken
    /\ origin = << >>
    /\ term = NoTerm
    /\ logs = NoLogs
    /\ \E placed \in Placements : emitter = ThreadedEmitter_new(placed)

\* the other variables while a ThreadedEmitter runs
EmitterOnly ==
    UNCHANGED <<impl, app, raw, cursor, parser, parsed, outcome, trace, before, grown,
                calls, params, given, injected, forms, built, checked, token, origin,
                term, logs>>

\* a producer thread calls emit(v); the emitter is not yet being dropped
Emit ==
    /\ emitter.thread = "alive"
    /\ emitter.emits < MaxMessages
    /\ \E v \in Messages : emitter' = ThreadedEmitter_emit(emitter, v)
    /\ EmitterOnly

\* the worker calls try_recv
TryRecv ==
    /\ emitter.worker = "try_recv"
    /\ emitter' = try_recv(emitter)
    /\ EmitterOnly

\* the wrapped emitter's emit returns, Ok or Err
WrappedEmit ==
    /\ emitter.worker = "emit"
    /\ \E r \in {Ok, Err("Io")} : emitter' = wrapped_emit(emitter, r)
    /\ EmitterOnly

\* the worker reads the flag
Load ==
    /\ emitter.worker = "load"
    /\ emitter' = load(emitter)
    /\ EmitterOnly

\* the owner's later calls reuse the stack slot new's local is_running had
Clobber ==
    /\ emitter.placed = "moved"
    /\ emitter' = [emitter EXCEPT !.slot = ~@]
    /\ EmitterOnly

\* the owner drops the emitter: the store
DropStore ==
    /\ emitter.thread = "alive"
    /\ emitter' = drop_store(emitter)
    /\ EmitterOnly

\* the owner drops the emitter: the join returns once the worker has ended
DropJoin ==
    /\ emitter.thread = "join"
    /\ emitter.worker = "done"
    /\ emitter' = drop_join(emitter)
    /\ EmitterOnly

NextEmitter ==
    \/ Emit
    \/ TryRecv
    \/ WrappedEmit
    \/ Load
    \/ Clobber
    \/ DropStore
    \/ DropJoin

SpecEmitter == InitEmitter /\ [][NextEmitter]_vars

\* the worker and the wrapped emitter are scheduled fairly, and the join
\* returns once the worker has ended
SpecEmitterFair ==
    /\ InitEmitter
    /\ [][NextEmitter]_vars
    /\ WF_vars(TryRecv)
    /\ WF_vars(WrappedEmit)
    /\ WF_vars(Load)
    /\ WF_vars(DropJoin)

\* ------------------------------------------------------ the root logger
\* calls made on the root logger
MaxLogCalls == 4

\* Logger::default().set_emitter(..): the loggers an application installs
Loggers ==
    {Logger_default,
     [Logger_default EXCEPT !.emitter = "StderrEmitter"],
     [Logger_default EXCEPT !.emitter = "EmptyEmitter"]}

init_log_replace(cell, logger) == [cell |-> Some(logger), r |-> Ok]

\* init_log: ROOT_LOG.set(logger), Err(logger) when the cell is set
init_log(cell, logger) ==
    IF cell.some
    THEN [cell |-> cell, r |-> [ok |-> FALSE, logger |-> logger]]
    ELSE [cell |-> Some(logger), r |-> Ok]

\* init_logger: ROOT_LOGGER.set(logger)
init_logger(cell, logger) ==
    IF cell.some
    THEN [cell |-> cell, r |-> [ok |-> FALSE, logger |-> logger]]
    ELSE [cell |-> Some(logger), r |-> Ok]

\* root: ROOT_LOG.get_or_init(Logger::default)
root(cell) ==
    IF cell.some
    THEN [cell |-> cell, r |-> cell.v]
    ELSE [cell |-> Some(Logger_default), r |-> Logger_default]

\* root of logger.rs: ROOT_LOGGER.get_or_init(Logger::default)
logger_root(cell) ==
    IF cell.some
    THEN [cell |-> cell, r |-> cell.v]
    ELSE [cell |-> Some(Logger_default), r |-> Logger_default]

InitLogs ==
    /\ app = DefaultApp
    /\ impl = app.impl
    /\ Quiet
    /\ built = NoArg
    /\ checked = NoCheck
    /\ token = NoToken
    /\ origin = << >>
    /\ term = NoTerm
    /\ emitter = NoEmitter
    /\ \E rev \in {"log", "logger"} : logs = [NoLogs EXCEPT !.rev = rev]

\* the other variables while the root logger is used
LogsOnly ==
    UNCHANGED <<impl, app, raw, cursor, parser, parsed, outcome, trace, before, grown,
                calls, params, given, injected, forms, built, checked, token, origin,
                term, emitter>>

\* some thread calls init_log(logger) (init_logger in logger.rs)
InitLog ==
    /\ Len(logs.done) < MaxLogCalls
    /\ \E logger \in Loggers :
         \E c \in {IF logs.rev = "log" THEN init_log(logs.cell, logger)
                                       ELSE init_logger(logs.cell, logger)} :
            logs' = [logs EXCEPT !.cell = c.cell,
                                 !.done = Append(@, [op |-> "init_log", logger |-> Some(logger),
                                                     r |-> c.r, cell |-> c.cell])]
    /\ LogsOnly

\* some thread calls root()
Root ==
    /\ Len(logs.done) < MaxLogCalls
    /\ \E c \in {IF logs.rev = "log" THEN root(logs.cell) ELSE logger_root(logs.cell)} :
         logs' = [logs EXCEPT !.cell = c.cell,
                              !.done = Append(@, [op |-> "root", logger |-> None,
                                                  r |-> c.r, cell |-> c.cell])]
    /\ LogsOnly

NextLogs ==
    \/ InitLog
    \/ Root

SpecLogs == InitLogs /\ [][NextLogs]_vars

\* ============================================================== claims
\* the steps of the last call that are tier parses, and helpers over the trace
ParseSteps == SelectSeq(trace, LAMBDA ev : ev.e = "parse")
HasTier(ev) == ev.e \in {"parse", "loop", "validate", "post_validate", "add_positional", "add_argument"}
IsPositionalStep(ev) ==
    \/ ev.e = "add_positional"
    \/ ev.e \in {"validate", "post_validate"} /\ ~ev.key.some
\* a call has been made and the schema is still the one it ran on
AfterCall == calls > 0 /\ ~grown
\* the last call was made again on a result that held records, the schema
\* having been changed in between
CalledAgain == calls > 0 /\ Len(before.args) >= 1 /\ before.grown
IsPrefix(s, t) == Len(s) <= Len(t) /\ SubSeq(t, 1, Len(s)) = s
Max(a, b) == IF a >= b THEN a ELSE b

\* C1 (as stated): a call made again on a result holding n >= 1 records runs
\* no validate and no post_validate of a tier with index < n and changes no
\* record at index < n.
C1_NoTierBelowN ==
    CalledAgain =>
        LET n == Len(before.args) IN
        /\ \A i \in 1..Len(trace) :
              trace[i].e \in {"validate", "post_validate"} => trace[i].tier >= n
        /\ \A j \in 1..n : parsed[j] = before.args[j]

\* C1 (amended): such a call processes no tier with index < n - 1 and changes
\* no record at index < n - 1; of tier n - 1 the positional is not validated,
\* post-validated or recorded again, and record n - 1 keeps its positional
\* value and the pairs it held, in order, and may only gain pairs.
C1_ResumesLastTier ==
    CalledAgain =>
        LET n == Len(before.args) IN
        /\ \A i \in 1..Len(trace) :
              /\ HasTier(trace[i]) => trace[i].tier >= n - 1
              /\ IsPositionalStep(trace[i]) => trace[i].tier >= n
        /\ Len(parsed) >= n
        /\ \A j \in 1..(n - 1) : parsed[j] = before.args[j]
        /\ parsed[n].value = before.args[n].value
        /\ IsPrefix(before.args[n].parameters, parsed[n].parameters)

\* C1 witness: a second call on two records, after the schema grew, that
\* resumed tier 1 and recorded a pair there
C1_Witness ==
    /\ CalledAgain
    /\ Len(before.args) = 2
    /\ \E i \in 1..Len(trace) : trace[i].e = "add_argument" /\ trace[i].tier = 1

\* C2: a call on n records and T tiers runs the tier parses max(0, n-1), ...,
\* in ascending order without a gap, up to T-1 when it returns Ok (an error
\* ends the walk); each is told to consume its positional exactly when its
\* index is >= the number of records at that moment, and only such a tier
\* records a positional.  A parse call starts from no record, hence at tier 0.
C2_TierWalk ==
    AfterCall =>
        LET n == Len(before.args)
            T == Len(parser)
            b == Max(0, n - 1)
            P == ParseSteps
        IN
        /\ \A j \in 1..Len(P) : P[j].tier = b + j - 1
        /\ Len(P) <= Max(0, T - b)
        /\ outcome.ok => Len(P) = Max(0, T - b)
        /\ \A i \in 1..Len(trace) :
              trace[i].e = "parse" =>
                LET pushed == Cardinality({h \in 1..(i - 1) : trace[h].e = "add_positional"})
                IN  /\ trace[i].len = n + pushed
                    /\ trace[i].parse_positional = (trace[i].tier >= n + pushed)
        /\ \A i \in 1..Len(trace) :
              trace[i].e = "add_positional" =>
                \E h \in 1..(i - 1) :
                    /\ trace[h].e = "parse" /\ trace[h].tier = trace[i].tier
                    /\ trace[h].tier >= trace[h].len

\* C2 witness: a call on one record and two tiers that returned Ok, resumed
\* tier 0 without a positional and consumed the positional of tier 1
C2_Witness ==
    /\ AfterCall /\ outcome.ok
    /\ Len(before.args) = 1 /\ Len(parser) = 2
    /\ Len(ParseSteps) = 2
    /\ \E i \in 1..Len(trace) : trace[i].e = "add_positional" /\ trace[i].tier = 1

\* the Arg of the forms tier accepts the value v, which is not key-shaped
FormsValueAccepted ==
    /\ ~is_arg_key(forms.v)
    /\ Arg_validate(Build(forms.chain, Arg_new), Some(forms.v)).ok

\* C3 (as stated): for a registered key k and an accepted, not key-shaped
\* value v, `k=v` and `k`, `v` append the same pair (k, v) and leave the
\* cursor on the same following token.
C3_SameRecord ==
    (forms.done /\ FormsValueAccepted) =>
        /\ forms.one.args = forms.two.args
        /\ forms.one.left = forms.two.left
        /\ Len(forms.one.args) = 1
        /\ Len(forms.one.args[1].parameters) >= 1
        /\ forms.one.args[1].parameters[1] = <<forms.k, forms.v>>

\* C3 (amended): the same, for an Arg whose validate rejects a missing value
\* (with NoValueGiven), which is what makes the parser take the next token.
C3_SameRecordWhenValueRequired ==
    (forms.done /\ FormsValueAccepted
       /\ Arg_validate(Build(forms.chain, Arg_new), None) = Err("NoValueGiven")) =>
        /\ forms.one.args = forms.two.args
        /\ forms.one.left = forms.two.left
        /\ forms.one.r = forms.two.r
        /\ Len(forms.one.args) = 1
        /\ Len(forms.one.args[1].parameters) >= 1
        /\ forms.one.args[1].parameters[1] = <<forms.k, forms.v>>
        /\ forms.two.args[1].parameters[1] = <<forms.k, forms.v>>

\* C3 witness: both forms parsed for a value-requiring Arg, the pair
\* recorded from the two-token form and a following token left in the cursor
C3_Witness ==
    /\ forms.done /\ FormsValueAccepted
    /\ Arg_validate(Build(forms.chain, Arg_new), None) = Err("NoValueGiven")
    /\ forms.two.r.ok
    /\ forms.two.args[1].parameters = <<<<forms.k, forms.v>>>>
    /\ forms.two.left # << >>

\* number of pairs with key k in a sequence of (key, value) pairs
PairCount(pairs, k) == Cardinality({j \in 1..Len(pairs) : pairs[j][1] = k})

\* times key k was recorded from the tokens of tier t: in the calls before
\* (the pairs record t held when the last call began) and in the last call
Occurrences(t, k) ==
    (IF t + 1 <= Len(before.args) THEN PairCount(before.args[t + 1].parameters, k) ELSE 0)
    + Cardinality({i \in 1..Len(trace) :
                     trace[i].e = "add_argument" /\ trace[i].tier = t /\ trace[i].key = k})

\* the Arg registered for key k in tier t (from 0)
ArgOf(t, k) == parser[t + 1].params[FindParam(parser[t + 1], k)].arg

HasValidator(arg, v) == \E i \in 1..Len(arg) : arg[i] = v
HasKind(arg, id) == \E i \in 1..Len(arg) : arg[i].id = id

\* a keyed Arg with cardinality (1,1) and nothing that injects a value
ExactlyOne(arg) ==
    /\ HasValidator(arg, ArgCountValidator(1, 1))
    /\ \A i \in 1..Len(arg) : arg[i].id = "ArgCountValidator" => arg[i] = ArgCountValidator(1, 1)
    /\ ~HasKind(arg, "DefaultArg")

\* C4 (as stated), for the calls that return: when post-validation reaches a
\* keyed Arg with cardinality (1,1), the tier parse returns the cardinality
\* error tagged with the key if the key occurred zero or several times in the
\* tier's tokens, and that Arg raises no error if it occurred exactly once.
C4_ExactlyOnce ==
    (AfterCall /\ outcome # Panic) =>
        \A i \in 1..Len(trace) :
            (/\ trace[i].e = "post_validate"
             /\ trace[i].key.some
             /\ ExactlyOne(ArgOf(trace[i].tier, trace[i].key.v))) =>
                IF Occurrences(trace[i].tier, trace[i].key.v) = 1
                THEN trace[i].r.ok
                ELSE /\ i = Len(trace)
                     /\ outcome = key(Err("TooManyValueGiven"), KeyTag(trace[i].key.v))

\* the value of the DefaultArg of an Arg that has one
DefaultOf(arg) == arg[CHOOSE i \in 1..Len(arg) : arg[i].id = "DefaultArg"].value

\* C5 (as stated): once a call has post-validated a keyed Arg that carries a
\* default, the record of its tier holds exactly one pair (key, default) if
\* the key was never given in the input, and no default was injected for it if
\* the key was given.
C5_DefaultOnceIffAbsent ==
    (AfterCall /\ outcome # Panic) =>
        \A i \in 1..Len(trace) :
            (/\ trace[i].e = "post_validate"
             /\ trace[i].key.some
             /\ trace[i].r.ok
             /\ HasKind(ArgOf(trace[i].tier, trace[i].key.v), "DefaultArg")) =>
                LET t == trace[i].tier
                    k == trace[i].key.v
                IN  IF <<t, k>> \notin given
                    THEN /\ t + 1 <= Len(parsed)
                         /\ PairCount(parsed[t + 1].parameters, k) = 1
                         /\ \E j \in 1..Len(parsed[t + 1].parameters) :
                               parsed[t + 1].parameters[j] = <<k, DefaultOf(ArgOf(t, k))>>
                    ELSE \A rec \in 0..MaxTiers : <<t, k, rec>> \notin injected

\* the validators of `regs` of one kind, and the first registration of a kind
OfKind(regs, id) == SelectSeq(regs, LAMBDA v : v.id = id)
FirstOf(regs, id) == CHOOSE i \in 1..Len(regs) : regs[i].id = id /\ \A h \in 1..(i - 1) : regs[h].id # id

\* C6 (as stated): the Arg holds one validator per kind registered on it, the
\* one registered last, in the slot order of the kinds' first registration:
\* registering a kind again replaces in place and never grows the list.
C6_ReplacesInSlot ==
    /\ \A i, j \in 1..Len(built.arg) : built.arg[i].id = built.arg[j].id => i = j
    /\ \A i \in 1..Len(built.regs) :
          \E j \in 1..Len(built.arg) :
             /\ built.arg[j].id = built.regs[i].id
             /\ built.arg[j] = OfKind(built.regs, built.regs[i].id)[Len(OfKind(built.regs, built.regs[i].id))]
    /\ \A i, j \in 1..Len(built.arg) :
          i < j => FirstOf(built.regs, built.arg[i].id) < FirstOf(built.regs, built.arg[j].id)

\* C6 for the revision of argument.rs, where add_validator swaps in place
C6_LegacyReplacesInSlot == impl = "argument_parser" => C6_ReplacesInSlot

\* C7: validate accepts a present value iff it equals, as a whole string, one
\* of the validator's options, and answers InvalidValue to every other present value.
C7_ExactMatch ==
    (checked.done /\ checked.v.some) =>
        IF \E i \in 1..Len(checked.self.options) : checked.self.options[i] = checked.v.v
        THEN checked.r = Ok
        ELSE checked.r = Err("InvalidValue")

\* C7 witness: a present value that is a proper prefix of an option, and no
\* option itself, was rejected.
C7_Witness ==
    /\ checked.done
    /\ checked.v = Some(T_x)
    /\ checked.self.options = <<<<"x", "y">>>>
    /\ checked.r = Err("InvalidValue")

\* C8 (as stated): a tier that is to consume its positional and finds a
\* key-shaped token fails with NotPositional tagged with its index, pushes
\* no record and leaves the cursor on the token.
C8_NotPositional ==
    calls > 0 =>
        \A i \in 1..Len(trace) :
            (/\ trace[i].e = "parse"
             /\ trace[i].parse_positional
             /\ trace[i].at <= Len(raw)
             /\ is_arg_key(raw[trace[i].at])) =>
                /\ i = Len(trace)
                /\ outcome = key(Err("NotPositional"), TierTag(trace[i].tier))
                /\ Len(parsed) = trace[i].len
                /\ cursor = trace[i].at

\* the "parse" step of the tier a step of the trace belongs to
TierStart(i) ==
    CHOOSE h \in 1..i : trace[h].e = "parse" /\ \A g \in (h + 1)..i : trace[g].e # "parse"

\* C9: when the positional Arg's validate rejects the positional token of a
\* tier, the call ends there with that error tagged with the tier index (it is
\* InvalidValue, the token missing from the tier's option set), no record was
\* pushed for the tier and the cursor is still on the rejected token.
C9_PositionalRejected ==
    calls > 0 =>
        \A i \in 1..Len(trace) :
            (trace[i].e = "validate" /\ ~trace[i].key.some /\ ~trace[i].r.ok) =>
                /\ i = Len(trace)
                /\ outcome = key(trace[i].r, TierTag(trace[i].tier))
                /\ trace[i].r = Err("InvalidValue")
                /\ HasKind(parser[trace[i].tier + 1].pos, "Option")
                /\ Len(parsed) = trace[TierStart(i)].len
                /\ Len(parsed) <= trace[i].tier
                /\ cursor = trace[i].at
                /\ trace[i].value = Some(raw[cursor])

\* C9 witness: tier 1 rejected its positional token after tier 0 recorded its own.
C9_Witness ==
    /\ calls > 0
    /\ ~outcome.ok
    /\ outcome.kind = "InvalidValue"
    /\ outcome.key.some
    /\ outcome.key.v.tier
    /\ outcome.key.v.k = 1
    /\ Len(parsed) = 1
    /\ cursor = 2
    /\ Len(trace) > 0
    /\ trace[Len(trace)].e = "validate"
    /\ ~trace[Len(trace)].key.some

\* a keyed Arg that requires a value met its key without an inline value:
\* step i is the validate(None) at the key token, answered NoValueGiven
NeedsValue(i) ==
    /\ trace[i].e = "validate"
    /\ trace[i].key.some
    /\ trace[i].at <= Len(raw)
    /\ ~trace[i].value.some
    /\ ~trace[i].r.ok
    /\ trace[i].r.kind = "NoValueGiven"

\* the key was the last raw token: NoValueGiven tagged with the key, no pair recorded
KeyLast(i) ==
    /\ outcome = key(Err("NoValueGiven"), KeyTag(trace[i].key.v))
    /\ \A j \in i..Len(trace) : trace[j].e # "add_argument"

\* the pair (key, the token after the key) was recorded, the cursor moving past it
Recorded(i) ==
    /\ i + 4 <= Len(trace)
    /\ trace[i + 3] = [e |-> "add_argument", tier |-> trace[i].tier,
                       key |-> trace[i].key.v, value |-> raw[trace[i].at + 1]]
    /\ trace[i + 4] = [e |-> "next", at |-> trace[i].at + 1]
    /\ \E rec \in 1..Len(parsed) : \E j \in 1..Len(parsed[rec].parameters) :
          parsed[rec].parameters[j] = <<trace[i].key.v, raw[trace[i].at + 1]>>

\* C10 (as stated): a value-requiring key without inline value fails with
\* NoValueGiven tagged with the key when it is the last token, and records
\* (key, v) when a token v follows.
C10_NextTokenRecorded ==
    calls > 0 =>
        \A i \in 1..Len(trace) :
            NeedsValue(i) =>
                IF trace[i].at = Len(raw) THEN KeyLast(i) ELSE Recorded(i)

\* C10 (amended): as above when the key is last; when a token v follows, v is
\* validated as the value: (key, v) is recorded if the Arg accepts v, and the
\* parse fails with validate's error tagged with the key, recording no pair, if not.
C10_AcceptedTokenRecorded ==
    AfterCall =>
        \A i \in 1..Len(trace) :
            NeedsValue(i) =>
                IF trace[i].at = Len(raw) THEN KeyLast(i)
                ELSE /\ i + 2 <= Len(trace)
                     /\ trace[i + 2].e = "validate"
                     /\ trace[i + 2].key = trace[i].key
                     /\ trace[i + 2].value = Some(raw[trace[i].at + 1])
                     /\ trace[i + 2].r =
                           Arg_validate(ArgOf(trace[i].tier, trace[i].key.v),
                                        Some(raw[trace[i].at + 1]))
                     /\ IF trace[i + 2].r.ok THEN Recorded(i)
                        ELSE /\ i + 2 = Len(trace)
                             /\ outcome = key(trace[i + 2].r, KeyTag(trace[i].key.v))

\* C10 witness: `-a` `x` with -a requiring a value: (-a, x) recorded after the retry.
C10_Witness ==
    /\ calls > 0
    /\ \E i \in 1..Len(trace) :
          /\ NeedsValue(i)
          /\ trace[i].at < Len(raw)
          /\ trace[i].key.v = T_a
          /\ raw[trace[i].at + 1] = T_x
          /\ Recorded(i)

\* the cursor when the tier of step i was left: where the next tier started,
\* or where the call ended
LeftAt(i) ==
    IF \E j \in (i + 1)..Len(trace) : trace[j].e = "parse"
    THEN trace[CHOOSE j \in (i + 1)..Len(trace) :
                  trace[j].e = "parse" /\ \A h \in (i + 1)..(j - 1) : trace[h].e # "parse"].at
    ELSE cursor

\* the token under the cursor at a turn of the keyed loop is no key, or a key
\* that no keyed Arg of the tier has
Unmatched(i) ==
    /\ trace[i].e = "loop"
    /\ trace[i].at <= Len(raw)
    /\ \/ ~is_arg_key(raw[trace[i].at])
       \/ FindParam(parser[trace[i].tier + 1], from_cmd(raw[trace[i].at]).key) = 0

\* C11: when the keyed loop of a tier meets a token that is no key, or a key
\* the tier does not have, the loop ends there without error: the tier only
\* post-validates afterwards, no pair is recorded, and the token is still the
\* next one when the tier is left.
C11_LoopStopsOnUnmatched ==
    AfterCall =>
        \A i \in 1..Len(trace) :
            Unmatched(i) =>
                /\ IF i = Len(trace) THEN outcome.ok
                   ELSE trace[i + 1].e \in {"post_validate", "parse"}
                /\ \A j \in (i + 1)..Len(trace) :
                      (\A h \in (i + 1)..j : trace[h].e # "parse") =>
                          /\ trace[j].e = "post_validate"
                          /\ trace[j].tier = trace[i].tier
                /\ LeftAt(i) = trace[i].at

\* C11 witness: a call returned Ok with the cursor on an unregistered key that
\* the last tier's loop met.
C11_Witness ==
    /\ AfterCall
    /\ outcome.ok
    /\ \E i \in 1..Len(trace) :
          /\ Unmatched(i)
          /\ is_arg_key(raw[trace[i].at])
          /\ cursor = trace[i].at
          /\ trace[i].at > 1

\* C12 (as stated): the result never holds more records than the parser has
\* tiers, and record i is tier i's: tier i's positional Arg accepts its value,
\* and each of its pairs has a key of tier i and was recorded, from a token or
\* as a default, while tier i was processed.
C12_RecordOfItsTier ==
    /\ Len(parsed) <= Len(parser)
    /\ \A i \in 1..Len(parsed) :
          /\ Arg_validate(parser[i].pos, Some(parsed[i].value)).ok
          /\ \A j \in 1..Len(parsed[i].parameters) :
                /\ FindParam(parser[i], parsed[i].parameters[j][1]) # 0
                /\ \/ <<i - 1, parsed[i].parameters[j][1]>> \in given
                   \/ <<i - 1, parsed[i].parameters[j][1], i - 1>> \in injected

\* the steps of the last call that recorded something from the input
Records == {i \in 1..Len(trace) : trace[i].e \in {"add_positional", "add_argument"}}

\* the pair of step i was recorded after the retry: validate, next, validate, add_argument
Retried(i) ==
    /\ trace[i].e = "add_argument"
    /\ i > 3
    /\ trace[i - 2].e = "next"
    /\ NeedsValue(i - 3)

\* the positions of the tokens that the record of step i consumed
Consumed(i) ==
    IF Retried(i) THEN {trace[i - 1].at - 1, trace[i - 1].at} ELSE {trace[i - 1].at}

\* what step i recorded is what the tokens it consumed hold
FromTokens(i) ==
    LET p == trace[i - 1].at IN
    IF trace[i].e = "add_positional" THEN trace[i].value = raw[p]
    ELSE IF Retried(i)
         THEN /\ from_cmd(raw[p - 1]) = [ok |-> TRUE, key |-> trace[i].key, value |-> None]
              /\ trace[i].value = raw[p]
         ELSE /\ from_cmd(raw[p]).ok
              /\ from_cmd(raw[p]).key = trace[i].key
              /\ trace[i].value = IF from_cmd(raw[p]).value.some
                                  THEN from_cmd(raw[p]).value.v ELSE EmptyString

\* C13: a call never moves the cursor back; the records of a successful call
\* consume the tokens from where the call found the cursor to where it left
\* it, each token once and in order: one token per positional, one per pair
\* with an inline or no value, the key and the next token for a pair recorded
\* by the retry; nothing else is consumed.
C13_ConsumedOnceInOrder ==
    calls > 0 =>
        /\ cursor >= before.at
        /\ outcome.ok =>
              /\ UNION {Consumed(i) : i \in Records} = before.at..(cursor - 1)
              /\ \A i, j \in Records :
                    i < j => \A p \in Consumed(i), q \in Consumed(j) : p < q
              /\ \A i \in Records : FromTokens(i)

\* C13 witness: a successful call consumed three tokens: a positional, and a
\* key with the token after it.
C13_Witness ==
    /\ calls > 0
    /\ outcome.ok
    /\ cursor = before.at + 3
    /\ \E i \in Records : Retried(i)

\* the shape of a key: '-' and exactly one character, or '--' and two or more
KeyShape(s) ==
    \/ Len(s) = 2 /\ s[1] = "-"
    \/ Len(s) >= 4 /\ s[1] = "-" /\ s[2] = "-"

\* C14 (as stated): is_arg_key answers true exactly on the tokens of the key
\* shape, and ArgKey::new succeeds exactly on those, failing with InvalidKey
\* on the others.
C14_KeyShape ==
    /\ token.is_arg_key.some => (token.is_arg_key.v <=> KeyShape(token.arg))
    /\ token.new.some =>
          IF KeyShape(token.arg) THEN token.new.v = [ok |-> TRUE, key |-> token.arg]
          ELSE token.new.v = Err("InvalidKey")

\* the part of a token before its first '=', the whole token without one
KeyPart(s) == IF FindEq(s) = 0 THEN s ELSE Prefix(s, FindEq(s) - 1)

\* from_cmd's answer splits the token at its first '='
SplitAtFirstEq(arg, r) ==
    IF \A i \in 1..Len(arg) : arg[i] # "="
    THEN r = [ok |-> TRUE, key |-> arg, value |-> None]
    ELSE /\ r.ok
         /\ r.value.some
         /\ arg = r.key \o <<"=">> \o r.value.v
         /\ \A i \in 1..Len(r.key) : r.key[i] # "="

\* C15 (as stated): from_cmd on a token whose key has the key shape splits at
\* the first '=' (key before it, value after it, possibly empty or holding
\* more '='; no '=': the whole token and no value), and answers InvalidKey on
\* every other token.
C15_SplitOrInvalidKey ==
    token.from_cmd.some =>
        IF KeyShape(KeyPart(token.arg)) THEN SplitAtFirstEq(token.arg, token.from_cmd.v)
        ELSE token.from_cmd.v = Err("InvalidKey")

\* C15 with the key shape that is_arg_key tests, a leading '-'
C15_SplitOrInvalidKeyOnDash ==
    token.from_cmd.some =>
        IF is_arg_key(token.arg) THEN SplitAtFirstEq(token.arg, token.from_cmd.v)
        ELSE token.from_cmd.v = Err("InvalidKey")

\* the step of the last call that raised its error
Raising == trace[Len(trace)]

\* C16: an error returned by a call carries a location tag: the tier index
\* when it was raised on the positional (an option found in its place, its
\* validate, its post_validate), the key when it was raised by validate or
\* post_validate of a keyed Arg.
C16_ErrorTagged ==
    (calls > 0 /\ ~outcome.ok /\ outcome.kind # "panic") =>
        /\ outcome.key.some
        /\ Len(trace) > 0
        /\ IF Raising.e = "parse" \/ ~Raising.key.some
           THEN /\ outcome.key.v.tier
                /\ outcome.key.v.k = Raising.tier
                /\ Raising.e = "parse" => outcome.kind = NotPositionalKind
                /\ Raising.e # "parse" => outcome.kind = Raising.r.kind
           ELSE /\ ~outcome.key.v.tier
                /\ outcome.key.v.k = Raising.key.v
                /\ Raising.e \in {"validate", "post_validate"}
                /\ outcome.kind = Raising.r.kind

\* C16 witness: a call returned the error of a keyed Arg's validate, tagged
\* with the key
C16_Witness ==
    /\ calls > 0
    /\ ~outcome.ok
    /\ Len(trace) > 0
    /\ Raising.e = "validate"
    /\ Raising.key.some
    /\ outcome.key.some
    /\ ~outcome.key.v.tier
    /\ outcome.key.v.k = Raising.key.v

\* step i is a validate or post_validate that returned an error
Failing(i) ==
    /\ trace[i].e \in {"validate", "post_validate"}
    /\ ~trace[i].r.ok

\* the cursor after the first i steps of the last call
At(i) ==
    LET j == CHOOSE h \in 1..i :
                 /\ trace[h].e \in {"parse", "next"}
                 /\ \A g \in (h + 1)..i : trace[g].e \notin {"parse", "next"}
    IN  IF trace[j].e = "next" THEN next(raw, trace[j].at) ELSE trace[j].at

\* the records pushed by the first i steps of the last call
Pushed(i) == Cardinality({h \in 1..i : trace[h].e = "add_positional"})

\* the call ended with step i: its error is the call's, and the cursor and
\* the records are as step i left them
Stops(i) ==
    /\ i = Len(trace)
    /\ ~outcome.ok
    /\ outcome.kind = trace[i].r.kind
    /\ cursor = At(i)
    /\ Len(parsed) = Len(before.args) + Pushed(i)

\* C17 (as stated): once a validate or post_validate step returns an error
\* the call takes no further step: no token consumed, no record or pair
\* appended, no validator run, no later tier processed; that error is returned.
C17_FailFast ==
    calls > 0 => \A i \in 1..Len(trace) : Failing(i) => Stops(i)

\* step i is the validate of a key's inline value, the first of parse_params
FirstValidate(i) ==
    /\ trace[i].e = "validate"
    /\ trace[i].key.some
    /\ i > 1
    /\ trace[i - 1].e = "loop"

\* C17 (amended): the same, except for NoValueGiven from the validate of a
\* key's inline value: the call then consumes the key token and validates
\* the next token once as the value, and that second answer is final.
C17_FailFastButRetry ==
    calls > 0 =>
        \A i \in 1..Len(trace) :
            Failing(i) =>
                IF FirstValidate(i) /\ trace[i].r.kind = "NoValueGiven"
                THEN /\ i + 2 <= Len(trace)
                     /\ trace[i + 1] = [e |-> "next", at |-> trace[i].at]
                     /\ trace[i + 2].e = "validate"
                     /\ trace[i + 2].key = trace[i].key
                     /\ trace[i + 2].tier = trace[i].tier
                     /\ ~FirstValidate(i + 2)
                ELSE Stops(i)

\* C17 witness: a keyed post_validate failed while a token and a later tier
\* were left, and the call ended there
C17_Witness ==
    /\ calls > 0
    /\ Len(trace) > 0
    /\ Failing(Len(trace))
    /\ Raising.e = "post_validate"
    /\ Raising.key.some
    /\ Raising.tier + 1 < Len(parser)
    /\ cursor <= Len(raw)
    /\ ~outcome.ok

\* the keyed Args of the tier registrations go to, the last one
Registered(tiers) == tiers[Len(tiers)].params

\* the Args a caller of this application supplies to add_argument
Supplied == {Build(chain, Arg_new) : chain \in app.keyed}

\* this step registered a keyed Arg under a key the tier already had
ReRegisters ==
    /\ params' = params + 1
    /\ Len(Registered(parser')) = Len(Registered(parser))

\* the step left the keys where they were, put a supplied Arg in the place of
\* one of them and left the Args of the others alone
ReplacesOne ==
    /\ \A j \in 1..Len(Registered(parser)) :
          Registered(parser')[j].key = Registered(parser)[j].key
    /\ \E j \in 1..Len(Registered(parser)) :
          /\ Registered(parser')[j].arg \in Supplied
          /\ \A h \in 1..Len(Registered(parser)) :
                h # j => Registered(parser')[h].arg = Registered(parser)[h].arg

\* C18 (as stated): registering a keyed Arg under a registered key leaves the
\* number and the order of the keys and puts the supplied Arg in the place of
\* the old one, so that only its validators apply to the key from then on.
C18_ReplacesArg == [][ReRegisters => ReplacesOne]_vars

\* C18 for ArgParser::add_argument alone, which swaps the Arg in
C18_ReplacesArgSwap == [][(impl = "arg_parser" /\ ReRegisters) => ReplacesOne]_vars

\* C19 (as stated): a validator whose validate returns NoValueGiven is the
\* emptiness validator with allow_empty = false; no other kind returns it.
C19_OnlyEmptinessNoValueGiven ==
    (checked.done /\ ~checked.r.ok /\ checked.r.kind = "NoValueGiven") =>
        /\ checked.self.id = "ArgEmptyValidator"
        /\ ~checked.self.allow_empty

\* the positional Arg of the tier of step i carries a default
DefaultedPositional(i) == HasKind(parser[trace[i].tier + 1].pos, "DefaultArg")

\* step i is the post_validate(None, args) of a positional that carries a default
PositionalDefault(i) ==
    /\ trace[i].e = "post_validate"
    /\ ~trace[i].key.some
    /\ DefaultedPositional(i)

\* step i enters a tier whose positional is due, carries a default, and finds
\* the input exhausted
ExhaustedDefault(i) ==
    /\ trace[i].e = "parse"
    /\ trace[i].parse_positional
    /\ trace[i].at > Len(raw)
    /\ DefaultedPositional(i)

\* C20: a default on a positional Arg changes nothing: its post_validate
\* (key None) succeeds and appends no pair, and a tier entered with the input
\* exhausted pushes no record; every record of the call is a token that was
\* validated as a positional.
C20_PositionalDefaultInert ==
    AfterCall =>
        /\ \A i \in 1..Len(trace) :
              PositionalDefault(i) => (trace[i].r.ok /\ ~trace[i].added)
        /\ \A i \in 1..Len(trace) :
              ExhaustedDefault(i) =>
                  \A j \in (i + 1)..Len(trace) :
                      trace[j].e = "add_positional" => trace[j].tier # trace[i].tier
        /\ Len(parsed) = Len(before.args) + Pushed(Len(trace))
        /\ \A j \in 1..Len(trace) :
              trace[j].e = "add_positional" =>
                  /\ j > 1
                  /\ trace[j - 1].e = "validate"
                  /\ trace[j - 1].at <= Len(raw)
                  /\ trace[j].value = raw[trace[j - 1].at]

\* C20 witness: the post_validate of a positional carrying a default ran on
\* its record and the call succeeded
C20_Witness ==
    /\ AfterCall
    /\ outcome.ok
    /\ \E i \in 1..Len(trace) : PositionalDefault(i)

\* a call entered a tier whose defaulted positional was due with no token left
C20_ExhaustedReached ==
    /\ AfterCall
    /\ \E i \in 1..Len(trace) : ExhaustedDefault(i)

\* PositionalParsedArgs::first_of: the first pair whose key is k
first_of(rec, k) ==
    IF \E j \in 1..Len(rec.parameters) : rec.parameters[j][1] = k
    THEN Some(rec.parameters[CHOOSE j \in 1..Len(rec.parameters) :
                                /\ rec.parameters[j][1] = k
                                /\ \A h \in 1..(j - 1) : rec.parameters[h][1] # k])
    ELSE None

\* PositionalParsedArgs::filter: the pairs whose key is k, in stored order
filter(rec, k) == SelectSeq(rec.parameters, LAMBDA pair : pair[1] = k)

\* the pairs of record r came in the order of their tokens, defaults last
InParseOrder(r) ==
    \A i, j \in 1..Len(origin[r]) :
        i < j =>
            /\ origin[r][i] = 0 => origin[r][j] = 0
            /\ (origin[r][i] # 0 /\ origin[r][j] # 0) => origin[r][i] < origin[r][j]

\* the queries of record r on key k answer from the stored pairs
QueriesAnswer(r, k) ==
    /\ PositionalParsedArgs_count(parsed[r], k) = Len(filter(parsed[r], k))
    /\ first_of(parsed[r], k).some <=> PositionalParsedArgs_count(parsed[r], k) > 0
    /\ first_of(parsed[r], k).some => first_of(parsed[r], k).v = filter(parsed[r], k)[1]
    /\ \A j \in 1..Len(filter(parsed[r], k)) : filter(parsed[r], k)[j][1] = k

\* every record has one origin per pair
OriginsKept ==
    /\ Len(origin) = Len(parsed)
    /\ \A r \in 1..Len(parsed) : Len(origin[r]) = Len(parsed[r].parameters)

\* C21 (as stated): in every record the pairs are stored in the order their
\* tokens were consumed, injected defaults after all parsed pairs, and
\* first_of, filter and count answer from the stored pairs in that order.
C21_StoredInParseOrder ==
    /\ OriginsKept
    /\ \A r \in 1..Len(parsed) :
          /\ InParseOrder(r)
          /\ \A k \in Keys : QueriesAnswer(r, k)

\* C21 without the place of the defaults: parsed pairs are in token order and
\* the queries answer from the stored pairs
C21_ParsedPairsInOrder ==
    /\ OriginsKept
    /\ \A r \in 1..Len(parsed) :
          /\ \A i, j \in 1..Len(origin[r]) :
                (i < j /\ origin[r][i] # 0 /\ origin[r][j] # 0) => origin[r][i] < origin[r][j]
          /\ \A k \in Keys : QueriesAnswer(r, k)

\* C22 (as stated): in a TerminalNodes value built from new(indent) by
\* append_node, new_line, begin_format, end_format and append_sub_node, a
\* NewLine that is not the last node is followed by Indent(indent).
C22_IndentAfterNewLine ==
    \A i \in 1..(Len(term.nodes) - 1) :
        term.nodes[i] = Node_NewLine => term.nodes[i + 1] = Node_Indent(term.ident)

\* C22 apart from end_format: a NewLine that is not the last node is followed
\* by Indent(indent), or by the End that end_format pushed
C22_IndentOrEndAfterNewLine ==
    \A i \in 1..(Len(term.nodes) - 1) :
        term.nodes[i] = Node_NewLine =>
            term.nodes[i + 1] \in {Node_Indent(term.ident), Node_End}

\* a result of one record in which key k occurs n times
Occurring(k, n) == <<[value |-> T_x, parameters |-> [j \in 1..n |-> <<k, T_x>>]]>>

\* the cardinality bounds registered last on the Arg under construction
LastBounds == OfKind(built.regs, "ArgCountValidator")[Len(OfKind(built.regs, "ArgCountValidator"))]

\* C23 (as stated): of the cardinality bounds registered on an Arg only the
\* last are enforced: post-validation accepts n occurrences of the key iff n
\* lies within them (required() then optional() accepts zero occurrences,
\* optional() then n_equal_to(1) rejects them).
C23_LastBoundsEnforced ==
    (HasKind(built.arg, "ArgCountValidator") /\ ~HasKind(built.arg, "DefaultArg")) =>
        \A n \in 0..2 :
            Arg_post_validate(built.arg, Some(T_a), Occurring(T_a, n)).r.ok
                <=> (LastBounds.min_size <= n /\ n <= LastBounds.max_size)

\* C23 for the revision of argument.rs, where add_validator swaps in place
C23_LegacyLastBoundsEnforced == impl = "argument_parser" => C23_LastBoundsEnforced

\* the validators of the Arg under construction that reject value v
Rejecting(v) == {i \in 1..Len(built.arg) : ~Validator_validate(built.arg[i], v).ok}

\* the least element of a non-empty set of indices
Earliest(S) == CHOOSE i \in S : \A j \in S : i <= j

\* the occurrences the validator at index i finds when the key occurred n
\* times: a default registered before it has filled in for zero occurrences
Found(i, n) ==
    IF n = 0 /\ \E h \in 1..(i - 1) : built.arg[h].id = "DefaultArg" THEN 1 ELSE n

\* the cardinality validators of the Arg under construction that reject n occurrences
Exceeding(n) ==
    {i \in 1..Len(built.arg) :
        /\ built.arg[i].id = "ArgCountValidator"
        /\ (Found(i, n) < built.arg[i].min_size \/ Found(i, n) > built.arg[i].max_size)}

\* the validators that run on n occurrences: all, or those up to the first failure
Running(n) ==
    IF Exceeding(n) = {} THEN 1..Len(built.arg) ELSE 1..Earliest(Exceeding(n))

\* the result left by post-validation of n occurrences: the first default
\* that ran is injected when there was no occurrence
Left(n) ==
    IF n = 0 /\ \E h \in Running(n) : built.arg[h].id = "DefaultArg"
    THEN add_parametric(Occurring(T_a, 0), T_a,
                        built.arg[Earliest({h \in Running(n) :
                                              built.arg[h].id = "DefaultArg"})].value)
    ELSE Occurring(T_a, n)

\* C24: validate and post_validate of an Arg run its validators in
\* registration order and stop at the first failure: the error is that of the
\* earliest failing validator, and a validator after it has no effect (a
\* default registered after a failing cardinality validator is not injected,
\* one registered before it is, and counts).
C24_FirstFailureWins ==
    /\ impl = "arg_parser" => built.arg = built.regs
    /\ \A v \in {None, Some(T_x), Some(T_y)} :
          Arg_validate(built.arg, v) =
              IF Rejecting(v) = {} THEN Ok
              ELSE Validator_validate(built.arg[Earliest(Rejecting(v))], v)
    /\ \A n \in 0..2 :
          Arg_post_validate(built.arg, Some(T_a), Occurring(T_a, n)) =
              [r |-> IF Exceeding(n) = {} THEN Ok ELSE Err("TooManyValueGiven"),
               args |-> Left(n)]

\* C24 witness: an Arg with a default registered after a cardinality
\* validator that asks for at least one occurrence
C24_Witness ==
    \E i, j \in 1..Len(built.arg) :
        /\ i < j
        /\ built.arg[i].id = "ArgCountValidator"
        /\ built.arg[i].min_size >= 1
        /\ built.arg[j].id = "DefaultArg"

\* step i is the validate of a bare key token whose Arg accepts a missing value
BareFlag(i) ==
    /\ FirstValidate(i)
    /\ ~trace[i].value.some
    /\ trace[i].r.ok

\* record rec holds the pair (k, v) that came from the token at position p
Holds(rec, k, v, p) ==
    \E j \in 1..Len(parsed[rec].parameters) :
        /\ parsed[rec].parameters[j] = <<k, v>>
        /\ origin[rec][j] = p

\* C25: a bare key token whose Arg accepts a missing value records (key, "")
\* and consumes that one token; the token after it is never validated as its
\* value and is left under the cursor.
C25_FlagTakesOneToken ==
    calls > 0 =>
        \A i \in 1..Len(trace) :
            BareFlag(i) =>
                /\ i + 2 <= Len(trace)
                /\ trace[i + 1] = [e |-> "add_argument", tier |-> trace[i].tier,
                                   key |-> trace[i].key.v, value |-> EmptyString]
                /\ trace[i + 2] = [e |-> "next", at |-> trace[i].at]
                /\ At(i + 2) = trace[i].at + 1
                /\ cursor >= trace[i].at + 1
                /\ \E rec \in 1..Len(parsed) :
                      Holds(rec, trace[i].key.v, EmptyString, trace[i].at)
                /\ \A j \in 1..Len(trace) :
                      (trace[j].e = "validate" /\ trace[j].at = trace[i].at + 1
                         /\ trace[i].at + 1 <= Len(raw)
                         /\ ~is_arg_key(raw[trace[i].at + 1]))
                      => ~trace[j].key.some

\* C25 witness: a bare flag was recorded with a non-key token after it, and
\* the call succeeded
C25_Witness ==
    /\ calls > 0
    /\ outcome.ok
    /\ \E i \in 1..Len(trace) :
          /\ BareFlag(i)
          /\ trace[i].at + 1 <= Len(raw)
          /\ ~is_arg_key(raw[trace[i].at + 1])

\* ParsedArg::first_of: the value of the last record's first pair with the key
ParsedArg_first_of(args, k) ==
    IF Len(args) = 0 THEN Panic
    ELSE IF first_of(args[Len(args)], k).some
         THEN Some(first_of(args[Len(args)], k).v[2])
         ELSE None

\* ParsedArg::filter: the values of the last record's pairs with the key
ParsedArg_filter(args, k) ==
    IF Len(args) = 0 THEN Panic
    ELSE [j \in 1..Len(filter(args[Len(args)], k)) |-> filter(args[Len(args)], k)[j][2]]

\* ParsedArg::contains
ParsedArg_contains(args, k) ==
    IF Len(args) = 0 THEN Panic ELSE first_of(args[Len(args)], k).some

\* key k was recorded in an earlier record only
EarlierOnly(k) ==
    /\ Len(parsed) >= 2
    /\ \E r \in 1..(Len(parsed) - 1) : PositionalParsedArgs_count(parsed[r], k) > 0
    /\ PositionalParsedArgs_count(parsed[Len(parsed)], k) = 0

\* C26: the key queries of the result look at the last record only: they
\* answer that record's pairs, and a key recorded in an earlier record only
\* has count 0, contains false, first_of None and an empty filter.
C26_QueriesLastRecord ==
    Len(parsed) > 0 =>
        \A k \in Keys :
            /\ ParsedArg_count(parsed, k) = Len(filter(parsed[Len(parsed)], k))
            /\ ParsedArg_contains(parsed, k) <=> ParsedArg_count(parsed, k) > 0
            /\ ParsedArg_first_of(parsed, k).some <=> ParsedArg_contains(parsed, k)
            /\ Len(ParsedArg_filter(parsed, k)) = ParsedArg_count(parsed, k)
            /\ ParsedArg_first_of(parsed, k).some =>
                  ParsedArg_first_of(parsed, k).v = ParsedArg_filter(parsed, k)[1]
            /\ EarlierOnly(k) =>
                  /\ ParsedArg_count(parsed, k) = 0
                  /\ ~ParsedArg_contains(parsed, k)
                  /\ ParsedArg_first_of(parsed, k) = None
                  /\ ParsedArg_filter(parsed, k) = << >>

\* C26 witness: a key was recorded in the first record and a later tier's
\* positional has been recorded since
C26_Witness ==
    /\ calls > 0
    /\ \E k \in Keys : EarlierOnly(k)

\* the last call was made on a result whose last record is of the parser's
\* last tier, after a registration, with the cursor on a key token whose key
\* that tier has
Resumed ==
    /\ calls > 0
    /\ ~grown
    /\ before.grown
    /\ Len(before.args) >= 1
    /\ Len(parser) = Len(before.args)
    /\ before.at <= Len(raw)
    /\ is_arg_key(raw[before.at])
    /\ FindParam(parser[Len(parser)], from_cmd(raw[before.at]).key) # 0

\* the key of the token the resumed call started on
ResumedKey == from_cmd(raw[before.at]).key

\* C27: such a call resumes the tier: it consumes no positional for it,
\* validates the token's key first, records the pair, when accepted, into the
\* tier's existing record behind the pairs it held, and post-validates every
\* keyed Arg of the tier over the pairs of both calls.
C27_GrowthResumed ==
    Resumed =>
        /\ Len(trace) >= 3
        /\ trace[1] = [e |-> "parse", tier |-> Len(parser) - 1, parse_positional |-> FALSE,
                       len |-> Len(before.args), at |-> before.at]
        /\ trace[2] = [e |-> "loop", tier |-> Len(parser) - 1, at |-> before.at]
        /\ trace[3].e = "validate"
        /\ trace[3].key = Some(ResumedKey)
        /\ trace[3].at = before.at
        /\ \A i \in 1..Len(trace) : ~IsPositionalStep(trace[i])
        /\ Len(parsed) = Len(before.args)
        /\ \A r \in 1..(Len(parsed) - 1) : parsed[r] = before.args[r]
        /\ parsed[Len(parsed)].value = before.args[Len(parsed)].value
        /\ IsPrefix(before.args[Len(parsed)].parameters, parsed[Len(parsed)].parameters)
        /\ (\E i \in 1..Len(trace) : trace[i].e = "add_argument") =>
              /\ cursor > before.at
              /\ Len(parsed[Len(parsed)].parameters) > Len(before.args[Len(parsed)].parameters)
              /\ parsed[Len(parsed)].parameters[Len(before.args[Len(parsed)].parameters) + 1][1]
                    = ResumedKey
              /\ origin[Len(parsed)][Len(before.args[Len(parsed)].parameters) + 1]
                    \in {before.at, before.at + 1}
        /\ outcome.ok =>
              \A j \in 1..Len(parser[Len(parser)].params) :
                  /\ \E h \in 1..Len(trace) :
                        /\ trace[h].e = "post_validate"
                        /\ trace[h].key = Some(parser[Len(parser)].params[j].key)
                        /\ trace[h].tier = Len(parser) - 1
                  /\ \A v \in 1..Len(parser[Len(parser)].params[j].arg) :
                        parser[Len(parser)].params[j].arg[v].id = "ArgCountValidator" =>
                            /\ parser[Len(parser)].params[j].arg[v].min_size
                                  <= ParsedArg_count(parsed, parser[Len(parser)].params[j].key)
                            /\ ParsedArg_count(parsed, parser[Len(parser)].params[j].key)
                                  <= parser[Len(parser)].params[j].arg[v].max_size

\* C27 witness: the resumed call recorded the token's pair behind a pair of
\* the call before and returned Ok
C27_Witness ==
    /\ Resumed
    /\ outcome.ok
    /\ Len(before.args[Len(parsed)].parameters) >= 1
    /\ Len(parsed[Len(parsed)].parameters) > Len(before.args[Len(parsed)].parameters)

\* step i is the validate(None) of a value-requiring key whose next token is key-shaped
KeyShapedFollows(i) ==
    /\ NeedsValue(i)
    /\ trace[i].at < Len(raw)
    /\ is_arg_key(raw[trace[i].at + 1])

\* the token after the key of step i was recorded as the key's value, both
\* tokens were consumed, and the token was never tried or recorded as a key
TakenAsValue(i) ==
    /\ Recorded(i)
    /\ At(i + 4) = trace[i].at + 2
    /\ cursor >= trace[i].at + 2
    /\ \A h \in 1..Len(trace) : trace[h].e = "loop" => trace[h].at # trace[i].at + 1
    /\ \A rec \in 1..Len(parsed) : \A j \in 1..Len(parsed[rec].parameters) :
          origin[rec][j] = trace[i].at + 1 =>
              parsed[rec].parameters[j] = <<trace[i].key.v, raw[trace[i].at + 1]>>

\* C28 (as stated): for a registered value-requiring key without inline value
\* followed by a key-shaped token t, the parse records (key, t), consumes
\* both tokens and does not record t as a key occurrence.
C28_KeyTakenAsValue ==
    calls > 0 => \A i \in 1..Len(trace) : KeyShapedFollows(i) => TakenAsValue(i)

\* C28 (amended): t is validated as the value without a test of its shape:
\* when the key's Arg accepts it the above holds, and when it does not (an
\* option set that lacks t) the parse fails with validate's error tagged with
\* the key and t is not consumed.
C28_AcceptedKeyTakenAsValue ==
    calls > 0 =>
        \A i \in 1..Len(trace) :
            KeyShapedFollows(i) =>
                /\ i + 2 <= Len(trace)
                /\ trace[i + 1] = [e |-> "next", at |-> trace[i].at]
                /\ trace[i + 2].e = "validate"
                /\ trace[i + 2].key = trace[i].key
                /\ trace[i + 2].value = Some(raw[trace[i].at + 1])
                /\ IF trace[i + 2].r.ok THEN TakenAsValue(i)
                   ELSE /\ i + 2 = Len(trace)
                        /\ outcome = key(trace[i + 2].r, KeyTag(trace[i].key.v))
                        /\ cursor = trace[i].at + 1

\* C28 witness: a key of the same tier followed a value-requiring key and was
\* recorded as its value, the call returning Ok
C28_Witness ==
    /\ AfterCall
    /\ outcome.ok
    /\ \E i \in 1..Len(trace) :
          /\ KeyShapedFollows(i)
          /\ TakenAsValue(i)
          /\ FindParam(parser[trace[i].tier + 1], from_cmd(raw[trace[i].at + 1]).key) # 0

\* step i enters a tier whose positional is due and finds the input exhausted
Exhausted(i) ==
    /\ trace[i].e = "parse"
    /\ trace[i].parse_positional
    /\ trace[i].at > Len(raw)

\* the keyed Args of the tier of step i
ParamsOf(i) == parser[trace[i].tier + 1].params

\* step h is a keyed post_validate that failed
FailedPost(h) == trace[h].e = "post_validate" /\ ~trace[h].r.ok

\* C29: a tier whose positional is due on an exhausted cursor raises no error
\* for it and pushes no record; its keyed post-validation still runs, Arg by
\* Arg until one fails; so a call can return Ok with fewer records than tiers.
C29_MissingPositionalSilent ==
    AfterCall =>
        \A i \in 1..Len(trace) :
            Exhausted(i) =>
                /\ \A h \in 1..Len(trace) :
                      (HasTier(trace[h]) /\ trace[h].tier = trace[i].tier) =>
                          ~IsPositionalStep(trace[h])
                /\ i + 1 <= Len(trace)
                /\ trace[i + 1] = [e |-> "loop", tier |-> trace[i].tier, at |-> trace[i].at]
                /\ \A j \in 1..Len(ParamsOf(i)) :
                      IF i + 1 + j <= Len(trace)
                      THEN /\ trace[i + 1 + j].e = "post_validate"
                           /\ trace[i + 1 + j].tier = trace[i].tier
                           /\ trace[i + 1 + j].key = Some(ParamsOf(i)[j].key)
                      ELSE \E h \in (i + 2)..Len(trace) : FailedPost(h)
                /\ (~outcome.ok /\ outcome.kind # "panic") =>
                      /\ FailedPost(Len(trace))
                      /\ ~outcome.key.v.tier
                /\ Len(parsed) <= trace[i].tier

\* C29 witness: a call returned Ok with fewer records than tiers: the tier
\* left out has a positional declared required and a keyed Arg that was
\* post-validated
C29_Witness ==
    /\ AfterCall
    /\ outcome.ok
    /\ Len(parsed) < Len(parser)
    /\ \E i \in 1..Len(trace) :
          /\ Exhausted(i)
          /\ HasValidator(parser[trace[i].tier + 1].pos, ArgCountValidator(1, 1))
          /\ Len(ParamsOf(i)) >= 1
          /\ trace[Len(trace)].e = "post_validate"

\* C30 (as stated): no parse or incremental_parse call aborts: each returns
\* Ok or an error, and no post-validation step queries a result without record.
C30_NeverAborts ==
    /\ outcome # Panic
    /\ \A i \in 1..Len(trace) : trace[i].e = "post_validate" => trace[i].r # Panic

\* C30 on a result that holds a record when post-validation starts
C30_NeverAbortsWithRecord ==
    (calls > 0 /\ Len(parsed) > 0) => C30_NeverAborts

\* step i is an iteration of a tier's keyed loop: a token is under the cursor
Iteration(i) == trace[i].e = "loop" /\ trace[i].at <= Len(raw)

\* the iterations of the last call
Iterations == {i \in 1..Len(trace) : Iteration(i)}

\* the turns of the same tier's loop after step i
LaterTurns(i) ==
    {j \in (i + 1)..Len(trace) : trace[j].e = "loop" /\ trace[j].tier = trace[i].tier}

\* C31: every iteration of a tier's keyed loop consumes a token or is the
\* loop's last, so a call makes at most as many iterations as tokens were
\* left plus tiers were parsed, and ends.
C31_LoopBounded ==
    calls > 0 =>
        /\ \A i \in Iterations :
              \/ LaterTurns(i) = {}
              \/ \A j \in LaterTurns(i) : trace[j].at > trace[i].at
        /\ \A i, j \in Iterations :
              (i < j /\ trace[i].tier = trace[j].tier) => trace[i].at < trace[j].at
        /\ Cardinality(Iterations) <= (Len(raw) + 1 - before.at) + Len(ParseSteps)
        /\ Cardinality({i \in Iterations : trace[i].at = cursor}) <= Len(ParseSteps)
        /\ cursor <= Len(raw) + 1

\* C31 witness: a call in which a tier's keyed loop made an iteration that
\* consumed its token and a last one that left its token under the cursor
C31_Witness ==
    /\ calls > 0
    /\ \E i, j \in Iterations :
          /\ i < j
          /\ trace[i].tier = trace[j].tier
          /\ LaterTurns(j) = {}
          /\ trace[j].at <= Len(raw)
          /\ cursor = trace[j].at

\* the messages passed to the wrapped emitter, in order
Handed == [i \in 1..Len(emitter.handed) |-> emitter.handed[i].msg]

\* the message the worker holds, as a sequence
Held == IF emitter.worker = "emit" THEN <<emitter.msg>> ELSE << >>

\* C32: once drop has returned, every message emit returned Ok on has been
\* passed to the wrapped emitter exactly once.
C32_AcceptedDelivered ==
    emitter.thread = "returned" => Handed = emitter.accepted

\* C33: the worker passes the messages on in the order they were sent, each
\* at most once (what was handed, is held and is queued make up what was
\* accepted), and it leaves its loop only after reading the flag as false,
\* never because the wrapped emitter failed.
C33_InOrderOnce ==
    /\ Handed \o Held \o emitter.queue = emitter.accepted
    /\ emitter.worker = "done" => (emitter.seen.some /\ ~emitter.seen.v)

\* C33 witness: the wrapped emitter failed on a message and the worker
\* passed the next one on
C33_Witness ==
    \E i \in 1..Len(emitter.handed) :
        /\ ~emitter.handed[i].ok
        /\ i < Len(emitter.handed)
        /\ emitter.handed[i + 1].ok
        /\ emitter.handed[i].msg # emitter.handed[i + 1].msg

\* C34: once drop has cleared the flag, the join returns.
C34_DropReturns ==
    (emitter.thread = "join") ~> (emitter.thread = "returned")

\* the logger the first call on the root logger fixed
Fixed == logs.done[1].cell

\* C35: the first of init_log and root() fixes the root logger (root() the
\* default one); every later init_log returns Err with the logger it was
\* given and leaves the root logger as it is, and every root() returns the
\* fixed logger.
C35_RootSetOnce ==
    \A k \in 1..Len(logs.done) :
        /\ logs.done[k].cell.some
        /\ logs.done[k].cell = Fixed
        /\ logs.cell = Fixed
        /\ logs.done[k].op = "root" =>
              /\ logs.done[k].r = Fixed.v
              /\ k = 1 => Fixed.v = Logger_default
        /\ (logs.done[k].op = "init_log" /\ k = 1) =>
              /\ logs.done[k].r.ok
              /\ Fixed = logs.done[k].logger
        /\ (logs.done[k].op = "init_log" /\ k > 1) =>
              /\ ~logs.done[k].r.ok
              /\ logs.done[k].r.logger = logs.done[k].logger.v

\* C35 witness: root() installed the default logger, a later init_log of
\* another logger was rejected, and root() was called again
C35_Witness ==
    /\ Len(logs.done) >= 3
    /\ logs.done[1].op = "root"
    /\ \E k \in 2..(Len(logs.done) - 1) :
          /\ logs.done[k].op = "init_log"
          /\ logs.done[k].logger.v # Logger_default
          /\ logs.done[k + 1].op = "root"

====
